---------------------------- MODULE Spec2Model ----------------------------
(***************************************************************************)
(* Loan lifecycle, payment ledger and credit scoring of LoanProBE          *)
(* (src/loanpro/models.py, views.py, serializers.py).                      *)
(*                                                                         *)
(* Money is held in cents (DecimalField, 2 decimal places).  Values that   *)
(* the code keeps as unrounded Decimal (the monthly payment, the total     *)
(* repayable, the outstanding balance) are held in hundredths of a cent,   *)
(* obtained by truncating the exact quotient.  Dates are day numbers; an   *)
(* instant is a UTC day and a UTC hour.  The clock variable is the current *)
(* UTC day; the hour at which a request is served is an input of the       *)
(* request.                                                                *)
(***************************************************************************)
EXTENDS Integers, Sequences, FiniteSets, Bags, TLC

(***************************************************************************)
(* Bounds of the model.                                                    *)
(***************************************************************************)
MaxLoans == 2
MaxVerify == 1
PayWindow == 1
MaxPaid == 2
Days == {0, 31}
Hours == {12, 23}
Noon == {12}
Amounts == {100000}
RequestAmounts == Amounts \cup {50000}
Rates == {1200, 1500}
Durations == {6}
\* <<amount, duration_months>> of the applications that probe the gates of
\* the loan application: below the minimum amount, at the 10,000.00 limit of
\* the 36-month rule, between the reduced and the base borrow limit of tier 1,
\* above the 50,000.00 limit of the 60-month rule, above the borrow limit
ApplyTerms ==
    { <<50000, 6>>, <<1000000, 6>>, <<1000000, 48>>,
      <<18000000, 6>>, <<18000000, 72>>, <<25000000, 6>> }
ApplyRates == {1200}
\* the amounts applied for by a customer of tier 2 whose history is settled:
\* 1,000.00, and 500,000.00, between 0.8 and 1.1 times the base limit
SettledAmounts == {100000, 50000000}
SettledTiers == {1, 2}

(***************************************************************************)
(* Unbounded naturals as little-endian sequences of base-10^4 digits, for  *)
(* the Decimal arithmetic of Loan.calculate_monthly_payment.               *)
(***************************************************************************)
Base == 10^4

RECURSIVE BigNorm(_)
BigNorm(x) ==
    IF x = <<>> THEN <<>>
    ELSE IF x[Len(x)] = 0 THEN BigNorm(SubSeq(x, 1, Len(x) - 1))
    ELSE x

RECURSIVE BigFromInt(_)
BigFromInt(i) ==
    IF i = 0 THEN <<>> ELSE <<i % Base>> \o BigFromInt(i \div Base)

BigDigit(x, i) == IF i <= Len(x) THEN x[i] ELSE 0

RECURSIVE BigCmpFrom(_, _, _)
BigCmpFrom(x, y, i) ==
    IF i = 0 THEN 0
    ELSE IF BigDigit(x, i) > BigDigit(y, i) THEN 1
    ELSE IF BigDigit(x, i) < BigDigit(y, i) THEN -1
    ELSE BigCmpFrom(x, y, i - 1)

BigCmp(x, y) ==
    BigCmpFrom(x, y, IF Len(x) > Len(y) THEN Len(x) ELSE Len(y))

RECURSIVE BigAddFrom(_, _, _, _)
BigAddFrom(x, y, i, carry) ==
    IF i > Len(x) /\ i > Len(y)
    THEN (IF carry = 0 THEN <<>> ELSE <<carry>>)
    ELSE LET s == BigDigit(x, i) + BigDigit(y, i) + carry
         IN  <<s % Base>> \o BigAddFrom(x, y, i + 1, s \div Base)

BigAdd(x, y) == BigNorm(BigAddFrom(x, y, 1, 0))

RECURSIVE BigSubFrom(_, _, _, _)
BigSubFrom(x, y, i, borrow) ==
    IF i > Len(x) THEN <<>>
    ELSE LET d == BigDigit(x, i) - BigDigit(y, i) - borrow
         IN  IF d < 0
             THEN <<d + Base>> \o BigSubFrom(x, y, i + 1, 1)
             ELSE <<d>> \o BigSubFrom(x, y, i + 1, 0)

\* x - y for x >= y
BigSub(x, y) == BigNorm(BigSubFrom(x, y, 1, 0))

RECURSIVE BigMulDigitFrom(_, _, _, _)
BigMulDigitFrom(x, d, i, carry) ==
    IF i > Len(x)
    THEN (IF carry = 0 THEN <<>> ELSE <<carry>>)
    ELSE LET p == x[i] * d + carry
         IN  <<p % Base>> \o BigMulDigitFrom(x, d, i + 1, p \div Base)

RECURSIVE BigMulFrom(_, _, _)
BigMulFrom(x, y, i) ==
    IF i > Len(y) THEN <<>>
    ELSE BigAdd(BigMulDigitFrom(x, y[i], 1, 0),
                <<0>> \o BigMulFrom(x, y, i + 1))

BigMul(x, y) == BigNorm(BigMulFrom(x, y, 1))

RECURSIVE BigPow(_, _)
BigPow(x, n) == IF n = 0 THEN <<1>> ELSE BigMul(x, BigPow(x, n - 1))

\* floor(num / den) for a quotient below 2^31, built from its top bit down
RECURSIVE BigDivFrom(_, _, _, _)
BigDivFrom(num, den, q, bit) ==
    IF bit < 0 THEN q
    ELSE LET cand == q + 2^bit
         IN  IF BigCmp(BigMul(den, BigFromInt(cand)), num) <= 0
             THEN BigDivFrom(num, den, cand, bit - 1)
             ELSE BigDivFrom(num, den, q, bit - 1)

BigDiv(num, den) == BigDivFrom(num, den, 0, 30)

(***************************************************************************)
(* Loan.calculate_monthly_payment as the exact fraction num/den in cents:  *)
(*   monthly_rate = interest_rate / 100 / 12  (interest_rate in hundredths *)
(*   of a percent here, so monthly_rate = rate / 120000 = a/b in lowest    *)
(*   terms),                                                               *)
(*   payment = amount * m * (1+m)^n / ((1+m)^n - 1).                       *)
(***************************************************************************)
RECURSIVE Gcd(_, _)
Gcd(a, b) == IF b = 0 THEN a ELSE Gcd(b, a % b)

PaymentFraction(amount, rate, n) ==
    IF n = 0 THEN [num |-> BigFromInt(amount), den |-> <<1>>]
    ELSE IF rate = 0 THEN [num |-> BigFromInt(amount), den |-> BigFromInt(n)]
    ELSE LET g    == Gcd(120000, rate)
             a    == rate \div g
             b    == 120000 \div g
             up   == BigPow(BigFromInt(b + a), n)
             down == BigPow(BigFromInt(b), n)
         IN  [num |-> BigMul(BigMul(BigFromInt(amount), BigFromInt(a)), up),
              den |-> BigMul(BigFromInt(b), BigSub(up, down))]

\* the unrounded Decimal, in hundredths of a cent
MonthlyPayment(amount, rate, n) ==
    LET f == PaymentFraction(amount, rate, n)
    IN  BigDiv(BigMul(f.num, <<100>>), f.den)

\* DecimalField(decimal_places=2): quantize to cents, ROUND_HALF_EVEN
StoredAmount(amount, rate, n) ==
    LET f     == PaymentFraction(amount, rate, n)
        q     == BigDiv(f.num, f.den)
        rem   == BigSub(f.num, BigMul(f.den, BigFromInt(q)))
        twice == BigCmp(BigAdd(rem, rem), f.den)
    IN  IF twice > 0 THEN q + 1
        ELSE IF twice < 0 THEN q
        ELSE IF q % 2 = 0 THEN q ELSE q + 1

\* both are computed once for the loan terms of the model, as sets of
\* <<terms, value>> pairs
LoanTerms ==
    (Amounts \X Rates \X Durations)
        \cup {<<t[1], r, t[2]>> : t \in {u \in ApplyTerms : u[2] <= 36},
                                  r \in ApplyRates}
        \cup (SettledAmounts \X ApplyRates \X Durations)

MonthlyPaymentTable ==
    {<<t, MonthlyPayment(t[1], t[2], t[3])>> : t \in LoanTerms}

StoredAmountTable ==
    {<<t, StoredAmount(t[1], t[2], t[3])>> : t \in LoanTerms}

Lookup(table, terms) == (CHOOSE e \in table : e[1] = terms)[2]

(***************************************************************************)
(* Users, customers and the null values of nullable fields.                *)
(***************************************************************************)
Admins == {"admin1", "admin2"}
Cashiers == {"admin1"}
Officers == {"officer1"}
Customers == {"cust1"}
NoUser == "none"
NoDate == -1
NoInstant == [day |-> -1, hour |-> -1]
NoKyc == [exists |-> FALSE, bvn_verified |-> FALSE, nin_verified |-> FALSE,
          verification_status |-> "not_started"]
KycProfiles ==
    {NoKyc,
     [exists |-> TRUE, bvn_verified |-> TRUE, nin_verified |-> TRUE,
      verification_status |-> "verified"],
     [exists |-> TRUE, bvn_verified |-> TRUE, nin_verified |-> FALSE,
      verification_status |-> "verified"],
     [exists |-> TRUE, bvn_verified |-> TRUE, nin_verified |-> FALSE,
      verification_status |-> "incomplete"],
     [exists |-> TRUE, bvn_verified |-> FALSE, nin_verified |-> FALSE,
      verification_status |-> "pending"]}
Tiers == {1}

VARIABLES customers, loans, payments, audit, clock, response, requests,
          otp_verifications, users

vars == <<customers, loans, payments, audit, clock, response, requests,
         otp_verifications, users>>

(***************************************************************************)
(* The clock.  timezone.now() is the aware UTC instant (USE_TZ = True);    *)
(* datetime.now() is the naive local time of TIME_ZONE = Africa/Lagos,     *)
(* one hour ahead of UTC.                                                  *)
(***************************************************************************)
UtcOffsetHours == 1

timezone_now(hour) == [day |-> clock, hour |-> hour]

UtcDate(t) == t.day

datetime_now_date(hour) == clock + ((hour + UtcOffsetHours) \div 24)

(***************************************************************************)
(* Customer (models.py).                                                   *)
(***************************************************************************)
get_base_limit_for_tier(tier) ==
    CASE tier = 1 -> 20000000
      [] tier = 2 -> 50000000
      [] tier = 3 -> 200000000
      [] tier = 4 -> 500000000
      [] OTHER    -> 0

\* Customer.save: the borrow limit falls back to the tier's base limit when
\* it is unset; the account number is generated once, at creation
Customer_save(c) ==
    [c EXCEPT !.current_borrow_limit =
        IF @ = 0 THEN get_base_limit_for_tier(c.tier) ELSE @]

LoanIds == 1..Len(loans)
PaymentIds == 1..Len(payments)

\* a run adds at most MaxLoans loans to those of its initial state: none, or
\* the SettledLoans loans of a customer whose history is settled
SettledLoans == 5
LoanRoom ==
    Len(loans) < MaxLoans + (IF Len(loans) >= SettledLoans THEN SettledLoans ELSE 0)

LoansOf(cid) == {l \in LoanIds : loans[l].customer = cid}
PaymentsOf(l) == {p \in PaymentIds : payments[p].loan = l}

is_on_time(p) ==
    IF p.paid_date # NoDate /\ p.due_date # NoDate
    THEN p.paid_date <= p.due_date
    ELSE FALSE

\* Payment.days_overdue at a given hour of the current day: for an open
\* payment, today is datetime.now().date(), the local date
days_overdue(p, hour) ==
    IF p.status = "completed" /\ p.paid_date # NoDate
    THEN (IF p.paid_date > p.due_date THEN p.paid_date - p.due_date ELSE 0)
    ELSE IF p.status \in {"pending", "overdue"}
    THEN (IF datetime_now_date(hour) > p.due_date
          THEN datetime_now_date(hour) - p.due_date ELSE 0)
    ELSE 0

Min(a, b) == IF a < b THEN a ELSE b
Max(a, b) == IF a > b THEN a ELSE b

\* int(on_time_ratio * 150) in double arithmetic: the floor of the exact
\* value, except where the rounded quotient times 150 falls just below an
\* integer (these are all such cases with fewer than 40 payments)
FloatShortfall == { <<11, 15>>, <<11, 30>>, <<22, 30>> }

on_time_factor(on_time_payments, late_payments) ==
    LET total == on_time_payments + late_payments
    IN  (on_time_payments * 150) \div total
            - (IF <<on_time_payments, total>> \in FloatShortfall THEN 1 ELSE 0)

\* the score without the final clamp to 300..850
score_of_Unclamped(total_loans, on_time_payments, late_payments, tier) ==
    LET ratio    == IF on_time_payments + late_payments > 0
                    THEN on_time_factor(on_time_payments, late_payments) ELSE 0
        history  == Min(total_loans * 10, 50)
        penalty  == IF late_payments > 0 THEN Min(late_payments * 20, 200) ELSE 0
    IN  IF total_loans = 0 THEN 300
        ELSE 300 + ratio + history + tier * 25 - penalty

\* the score with a history factor of 10 per loan without its cap of 50
score_of_HistoryUncapped(total_loans, on_time_payments, late_payments, tier) ==
    LET ratio    == IF on_time_payments + late_payments > 0
                    THEN on_time_factor(on_time_payments, late_payments) ELSE 0
        history  == total_loans * 10
        penalty  == IF late_payments > 0 THEN Min(late_payments * 20, 200) ELSE 0
    IN  IF total_loans = 0 THEN 300
        ELSE Min(Max(300 + ratio + history + tier * 25 - penalty, 300), 850)

\* the score of calculate_credit_score from what it counts: the customer's
\* loans, the payments that are on time, the other payments, and the tier
score_of(total_loans, on_time_payments, late_payments, tier) ==
    LET ratio    == IF on_time_payments + late_payments > 0
                    THEN on_time_factor(on_time_payments, late_payments) ELSE 0
        history  == Min(total_loans * 10, 50)
        penalty  == IF late_payments > 0 THEN Min(late_payments * 20, 200) ELSE 0
    IN  IF total_loans = 0 THEN 300
        ELSE Min(Max(300 + ratio + history + tier * 25 - penalty, 300), 850)

\* calculate_credit_score over a given payment table (the caller passes the
\* table as it stands once its own write is done)
calculate_credit_score(cid, pays) ==
    LET mine     == LoansOf(cid)
        all      == {p \in 1..Len(pays) : pays[p].loan \in mine}
        on_time  == Cardinality({p \in all : is_on_time(pays[p])})
        late     == Cardinality(all) - on_time
    IN  score_of(Cardinality(mine), on_time, late, customers[cid].tier)

update_credit_score(c, cid, pays) ==
    Customer_save([c EXCEPT !.credit_score = calculate_credit_score(cid, pays)])

\* the multiplier applied to the limit the customer already has
update_borrow_limit_FromPrevious(c) ==
    LET tenths     == IF c.credit_score >= 750 THEN 15
                      ELSE IF c.credit_score >= 650 THEN 13
                      ELSE IF c.credit_score >= 550 THEN 11
                      ELSE 8
    IN  Customer_save([c EXCEPT !.current_borrow_limit = (@ \div 10) * tenths])

\* base limit times 1.5 / 1.3 / 1.1 / 0.8 (base limits are multiples of 10)
update_borrow_limit(c) ==
    LET base_limit == get_base_limit_for_tier(c.tier)
        tenths     == IF c.credit_score >= 750 THEN 15
                      ELSE IF c.credit_score >= 650 THEN 13
                      ELSE IF c.credit_score >= 550 THEN 11
                      ELSE 8
    IN  Customer_save([c EXCEPT !.current_borrow_limit =
                           (base_limit \div 10) * tenths])

is_account_approved(c) == c.approval_status = "approved"

\* is_fully_verified going by the overall status alone
is_fully_verified_StatusOnly(k) == k.verification_status = "verified"

is_fully_verified(k) ==
    k.bvn_verified /\ k.nin_verified /\ k.verification_status = "verified"

is_kyc_verified(c) == IF c.kyc.exists THEN is_fully_verified(c.kyc) ELSE FALSE

can_apply_for_loan(c) ==
    is_account_approved(c) /\ is_kyc_verified(c) /\ c.assigned_staff # NoUser

(***************************************************************************)
(* Loan (models.py).                                                       *)
(***************************************************************************)
\* Loan.save: the due date is filled in from the local date the first time
\* the loan is saved as disbursed
Loan_save(loan, hour) ==
    IF loan.status = "disbursed" /\ loan.due_date = NoDate
    THEN [loan EXCEPT !.due_date =
             datetime_now_date(hour) + 30 * loan.duration_months]
    ELSE loan

calculate_monthly_payment(loan) ==
    Lookup(MonthlyPaymentTable,
           <<loan.amount, loan.interest_rate, loan.duration_months>>)

get_total_amount(loan) == calculate_monthly_payment(loan) * loan.duration_months

RECURSIVE SumAmounts(_, _)
SumAmounts(pays, ids) ==
    IF ids = {} THEN 0
    ELSE LET p == CHOOSE q \in ids : TRUE
         IN  pays[p].amount + SumAmounts(pays, ids \ {p})

\* the balance with every payment of the loan counted, recorded or not
get_outstanding_balance_AllPayments(l, pays) ==
    LET done == {p \in 1..Len(pays) : pays[p].loan = l}
    IN  get_total_amount(loans[l]) - 100 * SumAmounts(pays, done)

\* in hundredths of a cent, over a given payment table
get_outstanding_balance(l, pays) ==
    LET done == {p \in 1..Len(pays) :
                    pays[p].loan = l /\ pays[p].status = "completed"}
    IN  get_total_amount(loans[l]) - 100 * SumAmounts(pays, done)

(***************************************************************************)
(* Initial state: the customers are registered (credit score 300, borrow   *)
(* limit = base limit of the tier, address not verified) and have gone     *)
(* through some part of onboarding; there are no loans yet.                *)
(***************************************************************************)
\* the users by phone number (User.phone_number is unique): one phone number
\* belongs to a registered user, the other to nobody yet
Phones == {"+2348012345678", "+2348087654321"}
InitUsers == [ph \in {"+2348012345678"} |-> [is_phone_verified |-> FALSE]]

IdleRequest ==
    [pc |-> "idle", op |-> "none", id |-> 0, user |-> NoUser, hour |-> 0,
     loan |-> <<>>, seen |-> "none", code |-> 0]
NoResponse == [op |-> "none", code |-> 0, detail |-> ""]

InitCustomers(tiers) ==
    {Customer_save(
        [tier |-> t, credit_score |-> 300, current_borrow_limit |-> 0,
         is_address_verified |-> FALSE, approval_status |-> a, kyc |-> k,
         assigned_staff |-> s, created_by |-> "officer1"]) :
        t \in tiers, a \in {"approved", "pending"}, k \in KycProfiles,
        s \in {NoUser} \cup Officers}

InitCustomer == InitCustomers(Tiers)

Reqs == {"r1", "r2"}

Init ==
    /\ customers \in [Customers -> InitCustomer]
    /\ loans = <<>>
    /\ payments = <<>>
    /\ audit = EmptyBag
    /\ clock = 0
    /\ otp_verifications = <<>>
    /\ users = InitUsers
    /\ response = NoResponse
    /\ requests = [r \in Reqs |-> IdleRequest]

\* AuditLog rows (user, action, model_name, object_id); the table is the bag
\* of its rows, AuditLog.objects.create adds one
AuditEntry(user, action, model_name, object_id) ==
    [user |-> user, action |-> action, model_name |-> model_name,
     object_id |-> object_id]

\* the new row written over the rows of the table
AuditLog_create_Overwriting(log, entry) == SetToBag({entry})

AuditLog_create(log, entry) == log (+) SetToBag({entry})

AuditCount(log, action) ==
    LET rows == {e \in BagToSet(log) : e.action = action}
        RECURSIVE Sum(_)
        Sum(es) == IF es = {} THEN 0
                   ELSE LET e == CHOOSE x \in es : TRUE
                        IN  CopiesIn(e, log) + Sum(es \ {e})
    IN  Sum(rows)

Respond(op, code, detail) == [op |-> op, code |-> code, detail |-> detail]

\* time passes
Tick ==
    /\ \E d \in Days : d > clock /\ clock' = d
    /\ UNCHANGED <<customers, loans, payments, audit, response, requests,
                   otp_verifications, users>>

(***************************************************************************)
(* CustomerViewSet.verify_address (admin).                                 *)
(***************************************************************************)
verify_address(cid, u) ==
    /\ AuditCount(audit, "verify") < MaxVerify
    /\ customers' = [customers EXCEPT
                        ![cid] = Customer_save([@ EXCEPT !.is_address_verified = TRUE])]
    /\ audit' = AuditLog_create(audit, AuditEntry(u, "verify", "Customer", cid))
    /\ response' = Respond("verify_address", 200, "")
    /\ UNCHANGED <<loans, payments, clock, requests, otp_verifications, users>>

(***************************************************************************)
(* LoanCreateSerializer: the field validators and validate().  The result  *)
(* is "ok" or the reason of the first failing check.                       *)
(***************************************************************************)
\* the limits are Python floats: 1000.0, 1000000.0 and 50.0 are exact, but
\* the float 0.01 is greater than the decimal 0.01, so a rate of 0.01 fails
\* the min_value validator
validate_fields(amount, rate, duration) ==
    IF amount < 100000 THEN "amount_min_value"
    ELSE IF amount > 100000000 THEN "amount_max_value"
    ELSE IF rate <= 1 THEN "interest_rate_min_value"
    ELSE IF rate > 5000 THEN "interest_rate_max_value"
    ELSE IF duration < 6 THEN "duration_min_value"
    ELSE IF duration > 360 THEN "duration_max_value"
    ELSE "ok"

get_kyc_status(c) ==
    IF c.kyc.exists THEN c.kyc.verification_status ELSE "not_started"

\* validate without the borrow limit check
validate_customer_NoLimitCheck(c, cid, amount, duration) ==
        IF ~is_account_approved(c) THEN "account_not_approved"
        ELSE IF ~is_kyc_verified(c) THEN
            (IF get_kyc_status(c) = "no_kyc" THEN "kyc_required_bvn_nin"
             ELSE IF get_kyc_status(c) = "partial" THEN "kyc_incomplete"
             ELSE IF get_kyc_status(c) = "pending" THEN "kyc_pending_review"
             ELSE "kyc_required")
        ELSE IF \E l \in LoansOf(cid) : loans[l].status = "active"
             THEN "active_loan"
        ELSE IF amount > 5000000 /\ duration > 60 THEN "duration_over_60"
        ELSE IF amount <= 1000000 /\ duration > 36 THEN "duration_over_36"
        ELSE "ok"

\* validate without the active loan check
validate_customer_NoActiveCheck(c, cid, amount, duration) ==
        IF ~is_account_approved(c) THEN "account_not_approved"
        ELSE IF ~is_kyc_verified(c) THEN
            (IF get_kyc_status(c) = "no_kyc" THEN "kyc_required_bvn_nin"
             ELSE IF get_kyc_status(c) = "partial" THEN "kyc_incomplete"
             ELSE IF get_kyc_status(c) = "pending" THEN "kyc_pending_review"
             ELSE "kyc_required")
        ELSE IF amount > c.current_borrow_limit THEN "exceeds_borrow_limit"
        ELSE IF amount > 5000000 /\ duration > 60 THEN "duration_over_60"
        ELSE IF amount <= 1000000 /\ duration > 36 THEN "duration_over_36"
        ELSE "ok"

\* validate with the 36-month rule for amounts below 10,000.00 only
validate_customer_Below10000(c, cid, amount, duration) ==
        IF ~is_account_approved(c) THEN "account_not_approved"
        ELSE IF ~is_kyc_verified(c) THEN
            (IF get_kyc_status(c) = "no_kyc" THEN "kyc_required_bvn_nin"
             ELSE IF get_kyc_status(c) = "partial" THEN "kyc_incomplete"
             ELSE IF get_kyc_status(c) = "pending" THEN "kyc_pending_review"
             ELSE "kyc_required")
        ELSE IF \E l \in LoansOf(cid) : loans[l].status = "active"
             THEN "active_loan"
        ELSE IF amount > c.current_borrow_limit THEN "exceeds_borrow_limit"
        ELSE IF amount > 5000000 /\ duration > 60 THEN "duration_over_60"
        ELSE IF amount < 1000000 /\ duration > 36 THEN "duration_over_36"
        ELSE "ok"

validate_customer(c, cid, amount, duration) ==
        IF ~is_account_approved(c) THEN "account_not_approved"
        ELSE IF ~is_kyc_verified(c) THEN
            (IF get_kyc_status(c) = "no_kyc" THEN "kyc_required_bvn_nin"
             ELSE IF get_kyc_status(c) = "partial" THEN "kyc_incomplete"
             ELSE IF get_kyc_status(c) = "pending" THEN "kyc_pending_review"
             ELSE "kyc_required")
        ELSE IF \E l \in LoansOf(cid) : loans[l].status = "active"
             THEN "active_loan"
        ELSE IF amount > c.current_borrow_limit THEN "exceeds_borrow_limit"
        ELSE IF amount > 5000000 /\ duration > 60 THEN "duration_over_60"
        ELSE IF amount <= 1000000 /\ duration > 36 THEN "duration_over_36"
        ELSE "ok"

validate(cid, amount, duration) ==
    validate_customer(customers[cid], cid, amount, duration)

is_valid(cid, amount, rate, duration) ==
    IF validate_fields(amount, rate, duration) # "ok"
    THEN validate_fields(amount, rate, duration)
    ELSE validate(cid, amount, duration)

\* NewLoan with the status field defaulting to approved
NewLoan_DefaultApproved(cid, amount, rate, duration, requested_by, hour) ==
    Loan_save([customer |-> cid, amount |-> amount, interest_rate |-> rate,
               duration_months |-> duration, status |-> "approved",
               requested_by |-> requested_by, approved_by |-> NoUser,
               disbursed_at |-> NoInstant, due_date |-> NoDate], hour)

NewLoan(cid, amount, rate, duration, requested_by, hour) ==
    Loan_save([customer |-> cid, amount |-> amount, interest_rate |-> rate,
               duration_months |-> duration, status |-> "pending",
               requested_by |-> requested_by, approved_by |-> NoUser,
               disbursed_at |-> NoInstant, due_date |-> NoDate], hour)

\* create saving the loan before the serializer has validated it
create_SavedBeforeValidation(cid, amount, rate, duration, u, hour) ==
    /\ LET verdict == is_valid(cid, amount, rate, duration)
       IN  /\ LoanRoom
           /\ loans' = Append(loans, NewLoan(cid, amount, rate, duration, u, hour))
           /\ IF verdict = "ok"
              THEN /\ audit' = AuditLog_create(audit,
                                   AuditEntry(u, "create", "Loan", Len(loans) + 1))
                   /\ response' = Respond("create", 201, "")
              ELSE /\ response' = Respond("create", 400, verdict)
                   /\ UNCHANGED audit
    /\ UNCHANGED <<customers, payments, clock, requests, otp_verifications, users>>

(***************************************************************************)
(* LoanViewSet.create / perform_create: an account officer applies for a   *)
(* loan on behalf of a customer.                                           *)
(***************************************************************************)
create(cid, amount, rate, duration, u, hour) ==
    /\ LET verdict == is_valid(cid, amount, rate, duration)
       IN  IF verdict = "ok"
           THEN /\ LoanRoom
                /\ loans' = Append(loans, NewLoan(cid, amount, rate, duration, u, hour))
                /\ audit' = AuditLog_create(audit, AuditEntry(u, "create", "Loan", Len(loans) + 1))
                /\ response' = Respond("create", 201, "")
           ELSE /\ response' = Respond("create", 400, verdict)
                /\ UNCHANGED <<loans, audit>>
    /\ UNCHANGED <<customers, payments, clock, requests, otp_verifications, users>>

\* approve without the check of the loan's status
approve_NoStatusCheck(l, u, hour) ==
    LET loan == loans[l]
    IN  /\ IF ~customers[loan.customer].is_address_verified
           THEN /\ response' = Respond("approve", 400, "address_not_verified")
                /\ UNCHANGED <<loans, audit>>
           ELSE /\ loans' = [loans EXCEPT ![l] =
                                Loan_save([loan EXCEPT !.status = "approved",
                                                       !.approved_by = u], hour)]
                /\ audit' = AuditLog_create(audit, AuditEntry(u, "approve", "Loan", l))
                /\ response' = Respond("approve", 200, "")
        /\ UNCHANGED <<customers, payments, clock, requests, otp_verifications, users>>

\* approve without the check of the customer's address
approve_NoAddressCheck(l, u, hour) ==
    LET loan == loans[l]
    IN  /\ IF loan.status # "pending"
           THEN /\ response' = Respond("approve", 400, "not_pending")
                /\ UNCHANGED <<loans, audit>>
           ELSE /\ loans' = [loans EXCEPT ![l] =
                                Loan_save([loan EXCEPT !.status = "approved",
                                                       !.approved_by = u], hour)]
                /\ audit' = AuditLog_create(audit, AuditEntry(u, "approve", "Loan", l))
                /\ response' = Respond("approve", 200, "")
        /\ UNCHANGED <<customers, payments, clock, requests, otp_verifications, users>>

\* approve recording the approver before the checks
approve_ApproverSetFirst(l, u, hour) ==
    LET loan == [loans[l] EXCEPT !.approved_by = u]
    IN  /\ IF loan.status # "pending"
           THEN /\ response' = Respond("approve", 400, "not_pending")
                /\ loans' = [loans EXCEPT ![l] = Loan_save(loan, hour)]
                /\ UNCHANGED audit
           ELSE IF ~customers[loan.customer].is_address_verified
           THEN /\ response' = Respond("approve", 400, "address_not_verified")
                /\ loans' = [loans EXCEPT ![l] = Loan_save(loan, hour)]
                /\ UNCHANGED audit
           ELSE /\ loans' = [loans EXCEPT ![l] =
                                Loan_save([loan EXCEPT !.status = "approved"], hour)]
                /\ audit' = AuditLog_create(audit, AuditEntry(u, "approve", "Loan", l))
                /\ response' = Respond("approve", 200, "")
        /\ UNCHANGED <<customers, payments, clock, requests, otp_verifications, users>>

(***************************************************************************)
(* LoanViewSet.approve (admin).                                            *)
(***************************************************************************)
approve(l, u, hour) ==
    LET loan == loans[l]
    IN  /\ IF loan.status # "pending"
           THEN /\ response' = Respond("approve", 400, "not_pending")
                /\ UNCHANGED <<loans, audit>>
           ELSE IF ~customers[loan.customer].is_address_verified
           THEN /\ response' = Respond("approve", 400, "address_not_verified")
                /\ UNCHANGED <<loans, audit>>
           ELSE /\ loans' = [loans EXCEPT ![l] =
                                Loan_save([loan EXCEPT !.status = "approved",
                                                       !.approved_by = u], hour)]
                /\ audit' = AuditLog_create(audit, AuditEntry(u, "approve", "Loan", l))
                /\ response' = Respond("approve", 200, "")
        /\ UNCHANGED <<customers, payments, clock, requests, otp_verifications, users>>

\* reject without the check of the loan's status
reject_NoStatusCheck(l, u, hour) ==
    LET loan == loans[l]
    IN  /\ loans' = [loans EXCEPT ![l] =
                        Loan_save([loan EXCEPT !.status = "rejected",
                                               !.approved_by = u], hour)]
        /\ audit' = AuditLog_create(audit, AuditEntry(u, "reject", "Loan", l))
        /\ response' = Respond("reject", 200, "")
        /\ UNCHANGED <<customers, payments, clock, requests, otp_verifications, users>>

(***************************************************************************)
(* LoanViewSet.reject (admin).                                             *)
(***************************************************************************)
reject(l, u, hour) ==
    LET loan == loans[l]
    IN  /\ IF loan.status # "pending"
           THEN /\ response' = Respond("reject", 400, "not_pending")
                /\ UNCHANGED <<loans, audit>>
           ELSE /\ loans' = [loans EXCEPT ![l] =
                                Loan_save([loan EXCEPT !.status = "rejected",
                                                       !.approved_by = u], hour)]
                /\ audit' = AuditLog_create(audit, AuditEntry(u, "reject", "Loan", l))
                /\ response' = Respond("reject", 200, "")
        /\ UNCHANGED <<customers, payments, clock, requests, otp_verifications, users>>

(***************************************************************************)
(* LoanViewSet.create_payment_schedule: one payment per month, the amount  *)
(* stored with two decimals, due 30 * (month + 1) days after the UTC date  *)
(* of disbursed_at.                                                        *)
(***************************************************************************)
NewPayment(l, loan, month) ==
    [loan |-> l,
     amount |-> Lookup(StoredAmountTable,
                       <<loan.amount, loan.interest_rate, loan.duration_months>>),
     due_date |-> UtcDate(loan.disbursed_at) + 30 * (month + 1),
     paid_date |-> NoDate,
     status |-> "pending"]

create_payment_schedule(l, loan) ==
    [month \in 1..loan.duration_months |-> NewPayment(l, loan, month - 1)]

\* disburse without the check of the loan's status
disburse_NoStatusCheck(l, u, hour) ==
    LET loan  == loans[l]
        saved == Loan_save([loan EXCEPT !.status = "disbursed",
                                        !.disbursed_at = timezone_now(hour)], hour)
    IN  /\ loans' = [loans EXCEPT ![l] = saved]
        /\ payments' = payments \o create_payment_schedule(l, saved)
        /\ audit' = AuditLog_create(audit, AuditEntry(u, "update", "Loan", l))
        /\ response' = Respond("disburse", 200, "")
        /\ UNCHANGED <<customers, clock, requests, otp_verifications, users>>

(***************************************************************************)
(* LoanViewSet.disburse (admin).  The customer's account number is always  *)
(* set (Customer.save generates it at creation), so the branch that saves  *)
(* the customer again is never taken.                                      *)
(***************************************************************************)
disburse(l, u, hour) ==
    LET loan == loans[l]
    IN  /\ IF loan.status # "approved"
           THEN /\ response' = Respond("disburse", 400, "not_approved")
                /\ UNCHANGED <<loans, payments, audit>>
           ELSE LET saved == Loan_save([loan EXCEPT
                                           !.status = "disbursed",
                                           !.disbursed_at = timezone_now(hour)],
                                       hour)
                IN  /\ loans' = [loans EXCEPT ![l] = saved]
                    /\ payments' = payments \o create_payment_schedule(l, saved)
                    /\ audit' = AuditLog_create(audit, AuditEntry(u, "update", "Loan", l))
                    /\ response' = Respond("disburse", 200, "")
        /\ UNCHANGED <<customers, clock, requests, otp_verifications, users>>

(***************************************************************************)
(* PaymentViewSet.mark_paid.                                               *)
(***************************************************************************)
\* the payments a request is allowed to name in the model: any completed
\* one, and the first PayWindow open installments of each loan
Payable(p) ==
    \/ payments[p].status = "completed"
    \/ Cardinality({q \in PaymentsOf(payments[p].loan) :
                       q < p /\ payments[q].status # "completed"}) < PayWindow

\* mark_paid without the check for a payment that is already completed
\* mark_paid completing the loan once every installment is recorded, whatever
\* the outstanding balance
mark_paid_CompletesOnLastPayment(p, u, hour) ==
    LET payment == payments[p]
        l       == payment.loan
        cid     == loans[l].customer
    IN  /\ Payable(p)
        /\ IF payment.status = "completed"
           THEN /\ response' = Respond("mark_paid", 400, "already_completed")
                /\ UNCHANGED <<payments, customers, loans>>
           ELSE LET pays == [payments EXCEPT
                               ![p] = [@ EXCEPT !.status = "completed",
                                                !.paid_date = UtcDate(timezone_now(hour))]]
                IN  /\ payments' = pays
                    /\ customers' = [customers EXCEPT ![cid] =
                          update_borrow_limit(update_credit_score(@, cid, pays))]
                    /\ loans' = IF \A q \in 1..Len(pays) :
                                      pays[q].loan = l => pays[q].status = "completed"
                                THEN [loans EXCEPT ![l] =
                                        Loan_save([@ EXCEPT !.status = "completed"],
                                                  hour)]
                                ELSE loans
                    /\ response' = Respond("mark_paid", 200, "")
        /\ UNCHANGED <<audit, clock, requests, otp_verifications, users>>

mark_paid_NoCompletedCheck(p, u, hour) ==
    LET payment == payments[p]
        l       == payment.loan
        cid     == loans[l].customer
        pays    == [payments EXCEPT
                      ![p] = [@ EXCEPT !.status = "completed",
                                       !.paid_date = UtcDate(timezone_now(hour))]]
        outstanding == get_outstanding_balance(l, pays)
    IN  /\ Payable(p)
        /\ payments' = pays
        /\ customers' = [customers EXCEPT ![cid] =
              update_borrow_limit(update_credit_score(@, cid, pays))]
        /\ loans' = IF outstanding <= 0
                    THEN [loans EXCEPT ![l] =
                            Loan_save([@ EXCEPT !.status = "completed"], hour)]
                    ELSE loans
        /\ response' = Respond("mark_paid", 200, "")
        /\ UNCHANGED <<audit, clock, requests, otp_verifications, users>>

\* mark_paid recomputing the credit score before the payment is saved
mark_paid_ScoreBeforeSave(p, u, hour) ==
    LET payment == payments[p]
        l       == payment.loan
        cid     == loans[l].customer
    IN  /\ Payable(p)
        /\ IF payment.status = "completed"
           THEN /\ response' = Respond("mark_paid", 400, "already_completed")
                /\ UNCHANGED <<payments, customers, loans>>
           ELSE LET pays == [payments EXCEPT
                               ![p] = [@ EXCEPT !.status = "completed",
                                                !.paid_date = UtcDate(timezone_now(hour))]]
                    outstanding == get_outstanding_balance(l, pays)
                IN  /\ payments' = pays
                    /\ customers' = [customers EXCEPT ![cid] =
                          update_borrow_limit(update_credit_score(@, cid, payments))]
                    /\ loans' = IF outstanding <= 0
                                THEN [loans EXCEPT ![l] =
                                        Loan_save([@ EXCEPT !.status = "completed"],
                                                  hour)]
                                ELSE loans
                    /\ response' = Respond("mark_paid", 200, "")
        /\ UNCHANGED <<audit, clock, requests, otp_verifications, users>>

mark_paid(p, u, hour) ==
    LET payment == payments[p]
        l       == payment.loan
        cid     == loans[l].customer
    IN  /\ Payable(p)
        /\ IF payment.status = "completed"
           THEN /\ response' = Respond("mark_paid", 400, "already_completed")
                /\ UNCHANGED <<payments, customers, loans>>
           ELSE LET pays == [payments EXCEPT
                               ![p] = [@ EXCEPT !.status = "completed",
                                                !.paid_date = UtcDate(timezone_now(hour))]]
                    outstanding == get_outstanding_balance(l, pays)
                IN  /\ payments' = pays
                    /\ customers' = [customers EXCEPT ![cid] =
                          update_borrow_limit(update_credit_score(@, cid, pays))]
                    /\ loans' = IF outstanding <= 0
                                THEN [loans EXCEPT ![l] =
                                        Loan_save([@ EXCEPT !.status = "completed"],
                                                  hour)]
                                ELSE loans
                    /\ response' = Respond("mark_paid", 200, "")
        /\ UNCHANGED <<audit, clock, requests, otp_verifications, users>>

\* request_another_loan without the check for a completed payment
request_another_loan_NoPaymentCheck(l, amount, rate, duration, hour) ==
    LET cid == loans[l].customer
        verdict == is_valid(cid, amount, rate, duration)
    IN  /\ IF \E k \in LoansOf(cid) : loans[k].status = "pending"
           THEN /\ response' = Respond("request_another_loan", 400, "pending_loan_exists")
                /\ UNCHANGED <<loans, customers>>
           ELSE IF verdict = "ok"
           THEN /\ LoanRoom
                /\ customers' = [customers EXCEPT ![cid] =
                      update_borrow_limit(update_credit_score(@, cid, payments))]
                /\ loans' = Append(loans,
                               NewLoan(cid, amount, rate, duration,
                                       customers[cid].created_by, hour))
                /\ response' = Respond("request_another_loan", 200, "")
           ELSE /\ response' = Respond("request_another_loan", 400, verdict)
                /\ UNCHANGED <<loans, customers>>
        /\ UNCHANGED <<payments, audit, clock, requests, otp_verifications, users>>

(***************************************************************************)
(* LoanViewSet.request_another_loan: the customer who owns loan l asks for *)
(* a further loan.                                                         *)
(***************************************************************************)
request_another_loan(l, amount, rate, duration, hour) ==
    LET cid == loans[l].customer
        completed_payments ==
            Cardinality({p \in PaymentsOf(l) : payments[p].status = "completed"})
        verdict == is_valid(cid, amount, rate, duration)
    IN  /\ IF completed_payments = 0
           THEN /\ response' = Respond("request_another_loan", 400, "no_completed_payment")
                /\ UNCHANGED <<loans, customers>>
           ELSE IF \E k \in LoansOf(cid) : loans[k].status = "pending"
           THEN /\ response' = Respond("request_another_loan", 400, "pending_loan_exists")
                /\ UNCHANGED <<loans, customers>>
           ELSE IF verdict = "ok"
           THEN /\ LoanRoom
                /\ customers' = [customers EXCEPT ![cid] =
                      update_borrow_limit(update_credit_score(@, cid, payments))]
                /\ loans' = Append(loans,
                               NewLoan(cid, amount, rate, duration,
                                       customers[cid].created_by, hour))
                /\ response' = Respond("request_another_loan", 200, "")
           ELSE /\ response' = Respond("request_another_loan", 400, verdict)
                /\ UNCHANGED <<loans, customers>>
        /\ UNCHANGED <<payments, audit, clock, requests, otp_verifications, users>>

(***************************************************************************)
(* Requests served one after the other, all on one day.  Only disburse     *)
(* reads the hour; the other requests are taken at noon.                   *)
(***************************************************************************)
Next ==
    \/ \E cid \in Customers, u \in Cashiers : verify_address(cid, u)
    \/ \E cid \in Customers, amount \in RequestAmounts, rate \in Rates,
          duration \in Durations, u \in Officers, hour \in Noon :
            create(cid, amount, rate, duration, u, hour)
    \/ \E l \in LoanIds, u \in Admins, hour \in Noon : approve(l, u, hour)
    \/ \E l \in LoanIds, u \in Admins, hour \in Noon : reject(l, u, hour)
    \/ \E l \in LoanIds, u \in Cashiers, hour \in Hours : disburse(l, u, hour)
    \/ \E p \in PaymentIds, u \in Cashiers, hour \in Noon : mark_paid(p, u, hour)
    \/ \E l \in LoanIds, amount \in RequestAmounts, rate \in Rates,
          duration \in Durations, hour \in Noon :
            request_another_loan(l, amount, rate, duration, hour)

Spec == Init /\ [][Next]_vars

(***************************************************************************)
(* One loan followed over several days.                                    *)
(***************************************************************************)
NextClock ==
    \/ Tick
    \/ \E cid \in Customers, u \in Cashiers : verify_address(cid, u)
    \/ \E cid \in Customers, amount \in RequestAmounts, rate \in Rates,
          duration \in Durations, u \in Officers, hour \in Noon :
            loans = <<>> /\ create(cid, amount, rate, duration, u, hour)
    \/ \E l \in LoanIds, u \in Admins, hour \in Noon : approve(l, u, hour)
    \/ \E l \in LoanIds, u \in Admins, hour \in Noon : reject(l, u, hour)
    \/ \E l \in LoanIds, u \in Cashiers, hour \in Hours : disburse(l, u, hour)
    \/ \E p \in PaymentIds, u \in Cashiers, hour \in Noon : mark_paid(p, u, hour)

SpecClock == Init /\ [][NextClock]_vars

(***************************************************************************)
(* One loan followed over several days, for a customer of the lowest or    *)
(* the highest tier.                                                       *)
(***************************************************************************)
ScoreTiers == {1, 4}

InitScore ==
    /\ customers \in [Customers -> InitCustomers(ScoreTiers)]
    /\ loans = <<>>
    /\ payments = <<>>
    /\ audit = EmptyBag
    /\ clock = 0
    /\ otp_verifications = <<>>
    /\ users = InitUsers
    /\ response = NoResponse
    /\ requests = [r \in Reqs |-> IdleRequest]

SpecScore == InitScore /\ [][NextClock]_vars

(***************************************************************************)
(* LoanViewSet.partial_update (the ModelViewSet default, any authenticated *)
(* user who can see the loan): LoanSerializer leaves status writable, and  *)
(* serializer.save() stores it with Loan.save.                             *)
(***************************************************************************)
partial_update(l, u, new_status, hour) ==
    /\ loans' = [loans EXCEPT ![l] =
                    Loan_save([@ EXCEPT !.status = new_status], hour)]
    /\ response' = Respond("partial_update", 200, "")
    /\ UNCHANGED <<customers, payments, audit, clock, requests, otp_verifications, users>>

(***************************************************************************)
(* The loan application and its gates: applications of every kind of       *)
(* ApplyTerms, and a loan set to active through partial_update.  The gates *)
(* read only whether a payment is completed, so at most MaxPaid payments   *)
(* are recorded.                                                           *)
(***************************************************************************)
NextApply ==
    \/ \E cid \in Customers, u \in Cashiers : verify_address(cid, u)
    \/ \E cid \in Customers, t \in ApplyTerms, rate \in ApplyRates,
          u \in Officers, hour \in Noon :
            create(cid, t[1], rate, t[2], u, hour)
    \/ \E l \in LoanIds, u \in Cashiers, hour \in Noon : approve(l, u, hour)
    \/ \E l \in LoanIds, u \in Cashiers, hour \in Noon : disburse(l, u, hour)
    \/ \E p \in PaymentIds, u \in Cashiers, hour \in Noon :
            /\ Cardinality({q \in PaymentIds :
                                payments[q].status = "completed"}) < MaxPaid
            /\ mark_paid(p, u, hour)
    \/ \E l \in LoanIds, t \in ApplyTerms, rate \in ApplyRates, hour \in Noon :
            request_another_loan(l, t[1], rate, t[2], hour)
    \/ \E l \in LoanIds, u \in Cashiers, hour \in Noon :
            partial_update(l, u, "active", hour)

SpecApply == Init /\ [][NextApply]_vars

(***************************************************************************)
(* Credit score and borrow limit over loan and payment histories.  The     *)
(* customer has from 0 to MaxHistoryLoans loans.  The first loan may be    *)
(* disbursed, with one installment per month of its duration: some paid on *)
(* the due date, at most one paid a day late, the others not paid yet.     *)
(* The further loans are pending.  The stored score and limit are those of *)
(* the last recomputation: the creation values while no payment has been   *)
(* recorded, the values mark_paid has stored otherwise.                    *)
(***************************************************************************)
MaxHistoryLoans == 6
MaxHistoryPayments == 15
\* the tiers of TIER_CHOICES, and 5 for a tier column holding any other
\* integer
HistoryTiers == {1, 2, 3, 4, 5}

\* <<on time, paid late, not paid>> of the disbursed loan's installments
Histories ==
    {<<0, 0, 0>>} \cup
    {h \in (0..MaxHistoryPayments) \X {0, 1} \X (0..MaxHistoryPayments) :
        h[1] + h[2] + h[3] \in 6..MaxHistoryPayments}

HistoryLoan(h) ==
    [customer |-> "cust1", amount |-> 100000, interest_rate |-> 1200,
     duration_months |-> h[1] + h[2] + h[3], status |-> "disbursed",
     requested_by |-> "officer1", approved_by |-> "admin1",
     disbursed_at |-> [day |-> 0, hour |-> 12],
     due_date |-> 30 * (h[1] + h[2] + h[3])]

\* the stored installment of the disbursed loan, by its duration
HistoryAmountTable ==
    {<<n, StoredAmount(100000, 1200, n)>> : n \in 6..MaxHistoryPayments}

HistoryPayment(h, month) ==
    [loan |-> 1,
     amount |-> Lookup(HistoryAmountTable, h[1] + h[2] + h[3]),
     due_date |-> 30 * month,
     paid_date |-> IF month <= h[1] THEN 30 * month
                   ELSE IF month <= h[1] + h[2] THEN 30 * month + 1
                   ELSE NoDate,
     status |-> IF month <= h[1] + h[2] THEN "completed" ELSE "pending"]

HistoryCustomer(tier, total_loans, h) ==
    LET created ==
            Customer_save(
                [tier |-> tier, credit_score |-> 300, current_borrow_limit |-> 0,
                 is_address_verified |-> TRUE, approval_status |-> "approved",
                 kyc |-> [exists |-> TRUE, bvn_verified |-> TRUE,
                          nin_verified |-> TRUE,
                          verification_status |-> "verified"],
                 assigned_staff |-> "officer1", created_by |-> "officer1"])
    IN  IF h[1] + h[2] = 0 THEN created
        ELSE update_borrow_limit(
                 Customer_save([created EXCEPT !.credit_score =
                     score_of(total_loans, h[1], h[2] + h[3], tier)]))

InitHistory ==
    \E tier \in HistoryTiers, total_loans \in 0..MaxHistoryLoans, h \in Histories :
        /\ total_loans = 0 => h = <<0, 0, 0>>
        /\ loans = [l \in 1..total_loans |->
                       IF l = 1 /\ h # <<0, 0, 0>> THEN HistoryLoan(h)
                       ELSE NewLoan("cust1", 100000, 1200, 6, "officer1", 12)]
        /\ payments = [month \in 1..(h[1] + h[2] + h[3]) |-> HistoryPayment(h, month)]
        /\ customers = [c \in Customers |-> HistoryCustomer(tier, total_loans, h)]
        /\ audit = EmptyBag
        /\ clock = 30 * (h[1] + h[2]) + 1
        /\ otp_verifications = <<>>
        /\ users = InitUsers
        /\ response = NoResponse
        /\ requests = [r \in Reqs |-> IdleRequest]

\* customer.calculate_credit_score(): it reads and returns, nothing is saved
\* calculate_credit_score storing the score it returns
Customer_calculate_credit_score_Saving(cid) ==
    /\ customers' = [customers EXCEPT ![cid] = update_credit_score(@, cid, payments)]
    /\ response' = Respond("calculate_credit_score", 200, "")
    /\ UNCHANGED <<loans, payments, audit, clock, requests, otp_verifications, users>>

Customer_calculate_credit_score(cid) ==
    /\ calculate_credit_score(cid, payments) \in Int
    /\ response' = Respond("calculate_credit_score", 200, "")
    /\ UNCHANGED <<customers, loans, payments, audit, clock, requests, otp_verifications, users>>

\* customer.update_credit_score()
Customer_update_credit_score(cid) ==
    /\ customers' = [customers EXCEPT ![cid] = update_credit_score(@, cid, payments)]
    /\ response' = Respond("update_credit_score", 200, "")
    /\ UNCHANGED <<loans, payments, audit, clock, requests, otp_verifications, users>>

\* customer.update_borrow_limit()
Customer_update_borrow_limit(cid) ==
    /\ customers' = [customers EXCEPT ![cid] = update_borrow_limit(@)]
    /\ response' = Respond("update_borrow_limit", 200, "")
    /\ UNCHANGED <<loans, payments, audit, clock, requests, otp_verifications, users>>

NextHistory ==
    \/ \E cid \in Customers : Customer_calculate_credit_score(cid)
    \/ \E cid \in Customers : Customer_update_credit_score(cid)
    \/ \E cid \in Customers : Customer_update_borrow_limit(cid)

SpecHistory == InitHistory /\ [][NextHistory]_vars

(***************************************************************************)
(* A customer with a settled history applies again.  The customer has      *)
(* SettledLoans loans: the first was disbursed and its six installments    *)
(* were all recorded on their due dates, the last mark_paid completing it; *)
(* the others were applied for and rejected before that.  The stored score *)
(* and limit are those the last mark_paid computed.  From there an officer *)
(* applies for a further loan, admins approve and disburse, payments of    *)
(* the loans of 1,000.00 are recorded, and the customer requests another   *)
(* loan.                                                                   *)
(***************************************************************************)
SettledHistory == <<6, 0, 0>>

InitSettled ==
    \E tier \in SettledTiers :
        /\ loans = [l \in 1..SettledLoans |->
                       IF l = 1
                       THEN [HistoryLoan(SettledHistory) EXCEPT !.status = "completed"]
                       ELSE [NewLoan("cust1", 100000, 1200, 6, "officer1", 12)
                                EXCEPT !.status = "rejected",
                                       !.approved_by = "admin1"]]
        /\ payments = [month \in 1..6 |-> HistoryPayment(SettledHistory, month)]
        /\ customers = [c \in Customers |->
                           HistoryCustomer(tier, SettledLoans, SettledHistory)]
        /\ audit = EmptyBag
        /\ clock = 180
        /\ otp_verifications = <<>>
        /\ users = InitUsers
        /\ response = NoResponse
        /\ requests = [r \in Reqs |-> IdleRequest]

NextSettled ==
    \/ \E cid \in Customers, amount \in SettledAmounts, rate \in ApplyRates,
          duration \in Durations, u \in Officers, hour \in Noon :
            create(cid, amount, rate, duration, u, hour)
    \/ \E l \in LoanIds, u \in Cashiers, hour \in Noon : approve(l, u, hour)
    \/ \E l \in LoanIds, u \in Cashiers, hour \in Noon : disburse(l, u, hour)
    \/ \E p \in PaymentIds, u \in Cashiers, hour \in Noon :
            /\ loans[payments[p].loan].amount \in Amounts
            /\ mark_paid(p, u, hour)
    \/ \E l \in LoanIds, amount \in SettledAmounts, rate \in ApplyRates,
          duration \in Durations, hour \in Noon :
            request_another_loan(l, amount, rate, duration, hour)

SpecSettled == InitSettled /\ [][NextSettled]_vars

(***************************************************************************)
(* update_borrow_limit as a function of the stored row: a customer without *)
(* loans, of any tier, with a stored score at and around the thresholds of *)
(* the multiplier (the column accepts 300..850) and with a stored limit    *)
(* that is the tier's base limit or some other amount.                     *)
(***************************************************************************)
ScoreInputs == {300, 549, 550, 649, 650, 749, 750, 850}
PreviousLimits == {0, 100, 750000000}

InitLimit ==
    /\ customers \in
          [Customers ->
              {Customer_save([HistoryCustomer(tier, 0, <<0, 0, 0>>) EXCEPT
                                 !.credit_score = score,
                                 !.current_borrow_limit = limit]) :
                  tier \in HistoryTiers, score \in ScoreInputs,
                  limit \in PreviousLimits}]
    /\ loans = <<>>
    /\ payments = <<>>
    /\ audit = EmptyBag
    /\ clock = 0
    /\ otp_verifications = <<>>
    /\ users = InitUsers
    /\ response = NoResponse
    /\ requests = [r \in Reqs |-> IdleRequest]

SpecLimit == InitLimit /\ [][NextHistory]_vars

(***************************************************************************)
(* The loan operations when the INSERT of the audit row fails              *)
(* (AuditLog.objects.create raises: the database refuses the write, or, on *)
(* PostgreSQL, the first X-Forwarded-For entry that get_client_ip passes   *)
(* on is not an IP address).  No view catches the exception and none runs  *)
(* in a transaction (ATOMIC_REQUESTS is not set): the rows saved before    *)
(* the audit write stay, the exception handler of REST framework does not  *)
(* handle a database error, and the caller gets a 500.                     *)
(***************************************************************************)
create_audit_error(cid, amount, rate, duration, u, hour) ==
    /\ is_valid(cid, amount, rate, duration) = "ok"
    /\ LoanRoom
    /\ loans' = Append(loans, NewLoan(cid, amount, rate, duration, u, hour))
    /\ response' = Respond("create", 500, "audit_error")
    /\ UNCHANGED <<customers, payments, audit, clock, requests, otp_verifications, users>>

approve_audit_error(l, u, hour) ==
    LET loan == loans[l]
    IN  /\ loan.status = "pending"
        /\ customers[loan.customer].is_address_verified
        /\ loans' = [loans EXCEPT ![l] =
                        Loan_save([loan EXCEPT !.status = "approved",
                                               !.approved_by = u], hour)]
        /\ response' = Respond("approve", 500, "audit_error")
        /\ UNCHANGED <<customers, payments, audit, clock, requests, otp_verifications, users>>

reject_audit_error(l, u, hour) ==
    LET loan == loans[l]
    IN  /\ loan.status = "pending"
        /\ loans' = [loans EXCEPT ![l] =
                        Loan_save([loan EXCEPT !.status = "rejected",
                                               !.approved_by = u], hour)]
        /\ response' = Respond("reject", 500, "audit_error")
        /\ UNCHANGED <<customers, payments, audit, clock, requests, otp_verifications, users>>

disburse_audit_error(l, u, hour) ==
    LET loan  == loans[l]
        saved == Loan_save([loan EXCEPT !.status = "disbursed",
                                        !.disbursed_at = timezone_now(hour)],
                           hour)
    IN  /\ loan.status = "approved"
        /\ loans' = [loans EXCEPT ![l] = saved]
        /\ payments' = payments \o create_payment_schedule(l, saved)
        /\ response' = Respond("disburse", 500, "audit_error")
        /\ UNCHANGED <<customers, audit, clock, requests, otp_verifications, users>>

\* one loan, each audit write succeeding or failing
NextFault ==
    \/ \E cid \in Customers, u \in Cashiers : verify_address(cid, u)
    \/ \E cid \in Customers, amount \in RequestAmounts, rate \in Rates,
          duration \in Durations, u \in Officers, hour \in Noon :
            loans = <<>> /\ create(cid, amount, rate, duration, u, hour)
    \/ \E l \in LoanIds, u \in Admins, hour \in Noon : approve(l, u, hour)
    \/ \E l \in LoanIds, u \in Admins, hour \in Noon : reject(l, u, hour)
    \/ \E l \in LoanIds, u \in Cashiers, hour \in Noon : disburse(l, u, hour)
    \/ \E cid \in Customers, amount \in RequestAmounts, rate \in Rates,
          duration \in Durations, u \in Officers, hour \in Noon :
            loans = <<>> /\ create_audit_error(cid, amount, rate, duration, u, hour)
    \/ \E l \in LoanIds, u \in Admins, hour \in Noon : approve_audit_error(l, u, hour)
    \/ \E l \in LoanIds, u \in Admins, hour \in Noon : reject_audit_error(l, u, hour)
    \/ \E l \in LoanIds, u \in Cashiers, hour \in Noon :
            disburse_audit_error(l, u, hour)

SpecFault == Init /\ [][NextFault]_vars

(***************************************************************************)
(* Loan.calculate_monthly_payment and get_total_amount in the arithmetic   *)
(* of Python's decimal module, for the branches that return before the     *)
(* annuity formula: duration_months = 0 and monthly_rate = 0.  A Decimal   *)
(* is coef * 10^exp; every operation rounds its exact result to the        *)
(* precision of the default context, 28 significant digits, half to even.  *)
(***************************************************************************)
DecimalPrecision == 28

\* floor(x / d) and the remainder, for a divisor d of at most four digits
RECURSIVE BigDivSmallFrom(_, _, _, _)
BigDivSmallFrom(x, d, i, rem) ==
    IF i = 0 THEN [q |-> <<>>, r |-> rem]
    ELSE LET cur  == rem * Base + x[i]
             rest == BigDivSmallFrom(x, d, i - 1, cur % d)
         IN  [q |-> rest.q \o <<cur \div d>>, r |-> rest.r]

BigDivSmall(x, d) ==
    LET e == BigDivSmallFrom(x, d, Len(x), 0)
    IN  [q |-> BigNorm(e.q), r |-> e.r]

\* the number of decimal digits of x
BigDigits(x) ==
    IF x = <<>> THEN 0
    ELSE LET top == x[Len(x)]
         IN  4 * (Len(x) - 1)
               + (IF top >= 1000 THEN 4 ELSE IF top >= 100 THEN 3
                  ELSE IF top >= 10 THEN 2 ELSE 1)

BigPow10(k) == [i \in 1..(k \div 4) |-> 0] \o <<10^(k % 4)>>

\* x / d rounded to an integer, half to even
RoundHalfEven(x, d) ==
    LET e == BigDivSmall(x, d)
    IN  IF 2 * e.r > d \/ (2 * e.r = d /\ BigDigit(e.q, 1) % 2 = 1)
        THEN BigAdd(e.q, <<1>>)
        ELSE e.q

\* a result of up to DecimalPrecision + 3 digits, rounded to the precision
DecimalRound(coef, exp) ==
    LET k == BigDigits(coef) - DecimalPrecision
    IN  IF k <= 0 THEN [coef |-> coef, exp |-> exp]
        ELSE [coef |-> RoundHalfEven(coef, 10^k), exp |-> exp + k]

\* the number of digits to extend the dividend by for a quotient of
\* DecimalPrecision digits (coef >= n > 0)
QuotientShift(coef, n) == DecimalPrecision - BigDigits(BigDivSmall(coef, n).q)

\* a / n for an int n > 0 (a quotient with fewer digits is exact and has the
\* same value with the zeros appended)
DecimalDivideInt(a, n) ==
    LET s == QuotientShift(a.coef, n)
    IN  [coef |-> RoundHalfEven(BigMul(a.coef, BigPow10(s)), n),
         exp  |-> a.exp - s]

\* a * n for an int n >= 0
DecimalTimesInt(a, n) == DecimalRound(BigMul(a.coef, BigFromInt(n)), a.exp)

\* a == b, by value
DecimalEq(a, b) ==
    LET e == Min(a.exp, b.exp)
    IN  BigMul(a.coef, BigPow10(a.exp - e)) = BigMul(b.coef, BigPow10(b.exp - e))

\* a DecimalField value held in cents
DecimalOfCents(cents) == [coef |-> BigFromInt(cents), exp |-> -2]

\* calculate_monthly_payment where it returns before the annuity formula
zero_rate_monthly_payment(loan) ==
    IF loan.duration_months = 0 THEN DecimalOfCents(loan.amount)
    ELSE DecimalDivideInt(DecimalOfCents(loan.amount), loan.duration_months)

\* get_total_amount for such a loan
zero_rate_total_amount(loan) ==
    DecimalTimesInt(zero_rate_monthly_payment(loan), loan.duration_months)

(***************************************************************************)
(* A pending loan whose terms have been rewritten through the generic      *)
(* update of LoanViewSet (LoanSerializer accepts any interest_rate and     *)
(* duration_months, the model has no validators on them): interest_rate 0, *)
(* or duration_months 0.                                                   *)
(***************************************************************************)
ZeroRateAmounts ==
    {100000, 250000, 500000, 600000, 700000, 1000000, 1234567, 5000000,
     7000000, 100000000}
\* <<interest_rate, duration_months>>
ZeroRateTerms == { <<0, 6>>, <<0, 8>>, <<0, 9>>, <<0, 12>>, <<0, 0>>, <<1200, 0>> }

InitZeroRate ==
    /\ customers = [c \in Customers |-> HistoryCustomer(1, 0, <<0, 0, 0>>)]
    /\ \E amount \in ZeroRateAmounts, t \in ZeroRateTerms :
          loans = << NewLoan("cust1", amount, t[1], t[2], "officer1", 12) >>
    /\ payments = <<>>
    /\ audit = EmptyBag
    /\ clock = 0
    /\ otp_verifications = <<>>
    /\ users = InitUsers
    /\ response = NoResponse
    /\ requests = [r \in Reqs |-> IdleRequest]

\* loan.calculate_monthly_payment()
Loan_calculate_monthly_payment(l) ==
    /\ zero_rate_monthly_payment(loans[l]).exp \in Int
    /\ response' = Respond("calculate_monthly_payment", 200, "")
    /\ UNCHANGED <<customers, loans, payments, audit, clock, requests, otp_verifications, users>>

\* loan.get_total_amount()
Loan_get_total_amount(l) ==
    /\ zero_rate_total_amount(loans[l]).exp \in Int
    /\ response' = Respond("get_total_amount", 200, "")
    /\ UNCHANGED <<customers, loans, payments, audit, clock, requests, otp_verifications, users>>

NextZeroRate ==
    \/ \E l \in LoanIds : Loan_calculate_monthly_payment(l)
    \/ \E l \in LoanIds : Loan_get_total_amount(l)

SpecZeroRate == InitZeroRate /\ [][NextZeroRate]_vars

(***************************************************************************)
(* Who may record a payment (views.py, PaymentViewSet; permissions.py).    *)
(* A user is an admin, an account officer or the user of a customer (the   *)
(* customer's key stands for its user); a request without credentials is   *)
(* anonymous.  PaymentViewSet overrides get_permissions: the permissions   *)
(* of a request are chosen from the name of the action alone, and the      *)
(* permission_classes given to the action decorator of mark_paid are not   *)
(* read.                                                                   *)
(***************************************************************************)
Anonymous == "anonymous"
Users == Admins \cup Officers \cup Customers

role(u) ==
    IF u \in Admins THEN "admin"
    ELSE IF u \in Officers THEN "account_officer"
    ELSE IF u \in Customers THEN "customer"
    ELSE "none"

is_authenticated(u) == u \in Users

IsAdmin(u) == is_authenticated(u) /\ role(u) = "admin"

IsAuthenticated(u) == is_authenticated(u)

\* whether the permissions get_permissions returns for the action let u in
PaymentViewSet_get_permissions(action, u) ==
    IF action \in {"create", "update", "partial_update"}
    THEN IsAdmin(u)
    ELSE IsAuthenticated(u)

PaymentViewSet_get_queryset(u) ==
    IF role(u) = "customer"
    THEN {p \in PaymentIds : loans[payments[p].loan].customer = u}
    ELSE PaymentIds

\* POST /payments/{p}/mark_paid/ from user u: the permission check of the
\* view, get_object on the queryset of u, then the body of mark_paid
PaymentViewSet_mark_paid(p, u, hour) ==
    IF ~PaymentViewSet_get_permissions("mark_paid", u)
    THEN /\ response' = Respond("mark_paid",
                                IF is_authenticated(u) THEN 403 ELSE 401,
                                "permission_denied")
         /\ UNCHANGED <<customers, loans, payments, audit, clock, requests, otp_verifications, users>>
    ELSE IF p \notin PaymentViewSet_get_queryset(u)
    THEN /\ response' = Respond("mark_paid", 404, "not_found")
         /\ UNCHANGED <<customers, loans, payments, audit, clock, requests, otp_verifications, users>>
    ELSE mark_paid(p, u, hour)

\* one loan, its payments recorded by requests of every kind of user
NextAuth ==
    \/ \E cid \in Customers, u \in Cashiers : verify_address(cid, u)
    \/ \E cid \in Customers, amount \in RequestAmounts, rate \in Rates,
          duration \in Durations, u \in Officers, hour \in Noon :
            loans = <<>> /\ create(cid, amount, rate, duration, u, hour)
    \/ \E l \in LoanIds, u \in Cashiers, hour \in Noon : approve(l, u, hour)
    \/ \E l \in LoanIds, u \in Cashiers, hour \in Noon : disburse(l, u, hour)
    \/ \E p \in PaymentIds, u \in Users \cup {Anonymous}, hour \in Noon :
            PaymentViewSet_mark_paid(p, u, hour)

SpecAuth == Init /\ [][NextAuth]_vars

(***************************************************************************)
(* Requests served concurrently.  No view runs in a transaction and no row *)
(* is locked, so the database statements of two requests interleave: the   *)
(* SELECT of get_object, the UPDATE of loan.save() (every column, from the *)
(* instance the request loaded), the INSERTs of the payment schedule, the  *)
(* INSERT of the audit row.                                                *)
(***************************************************************************)
get_object(r, op, l, u, hour) ==
    /\ requests[r].pc = "idle"
    /\ requests' = [requests EXCEPT ![r] =
                       [pc |-> "loaded", op |-> op, id |-> l, user |-> u,
                        hour |-> hour, loan |-> loans[l],
                        seen |-> loans[l].status, code |-> 0]]
    /\ UNCHANGED <<customers, loans, payments, audit, clock, response, otp_verifications, users>>

Finish(r, code) ==
    requests' = [requests EXCEPT ![r] = [@ EXCEPT !.pc = "done", !.code = code]]

\* the status check on the loaded instance, then loan.save()
save_loan(r) ==
    LET req  == requests[r]
        loan == req.loan
        Saved(new) ==
            /\ loans' = [loans EXCEPT ![req.id] = new]
            /\ requests' = [requests EXCEPT ![r] =
                               [@ EXCEPT !.pc = "saved", !.loan = new]]
    IN  /\ req.pc = "loaded"
        /\ CASE req.op = "approve" ->
                  IF loan.status # "pending" THEN Finish(r, 400) /\ UNCHANGED loans
                  ELSE IF ~customers[loan.customer].is_address_verified
                  THEN Finish(r, 400) /\ UNCHANGED loans
                  ELSE Saved(Loan_save([loan EXCEPT !.status = "approved",
                                                    !.approved_by = req.user],
                                       req.hour))
             [] req.op = "reject" ->
                  IF loan.status # "pending" THEN Finish(r, 400) /\ UNCHANGED loans
                  ELSE Saved(Loan_save([loan EXCEPT !.status = "rejected",
                                                    !.approved_by = req.user],
                                       req.hour))
             [] req.op = "disburse" ->
                  IF loan.status # "approved" THEN Finish(r, 400) /\ UNCHANGED loans
                  ELSE Saved(Loan_save([loan EXCEPT
                                           !.status = "disbursed",
                                           !.disbursed_at = timezone_now(req.hour)],
                                       req.hour))
        /\ UNCHANGED <<customers, payments, audit, clock, response, otp_verifications, users>>

\* create_payment_schedule of a disburse request
insert_schedule(r) ==
    LET req == requests[r]
    IN  /\ req.pc = "saved"
        /\ req.op = "disburse"
        /\ payments' = payments \o create_payment_schedule(req.id, req.loan)
        /\ requests' = [requests EXCEPT ![r] = [@ EXCEPT !.pc = "scheduled"]]
        /\ UNCHANGED <<customers, loans, audit, clock, response, otp_verifications, users>>

\* the audit row and the response
finish_request(r) ==
    LET req == requests[r]
        action == IF req.op = "disburse" THEN "update" ELSE req.op
    IN  /\ \/ req.pc = "saved" /\ req.op \in {"approve", "reject"}
           \/ req.pc = "scheduled"
        /\ audit' = AuditLog_create(audit,
                        AuditEntry(req.user, action, "Loan", req.id))
        /\ Finish(r, 200)
        /\ UNCHANGED <<customers, loans, payments, clock, response, otp_verifications, users>>

\* one loan, set up by requests that run alone; then at most one request
\* per slot of Reqs, their statements interleaved
NextConc ==
    \/ \E cid \in Customers, u \in Cashiers : verify_address(cid, u)
    \/ \E cid \in Customers, amount \in RequestAmounts, rate \in Rates,
          duration \in Durations, u \in Officers, hour \in Noon :
            loans = <<>> /\ create(cid, amount, rate, duration, u, hour)
    \/ \E l \in LoanIds, u \in Admins, hour \in Noon :
            (\A r \in Reqs : requests[r].pc = "idle") /\ approve(l, u, hour)
    \/ \E r \in Reqs, l \in LoanIds, u \in Admins :
            get_object(r, "approve", l, u, 12)
    \/ \E r \in Reqs, l \in LoanIds, u \in Admins :
            get_object(r, "reject", l, u, 12)
    \/ \E r \in Reqs, l \in LoanIds, u \in Cashiers, hour \in Hours :
            get_object(r, "disburse", l, u, hour)
    \/ \E r \in Reqs : save_loan(r)
    \/ \E r \in Reqs : insert_schedule(r)
    \/ \E r \in Reqs : finish_request(r)

SpecConc == Init /\ [][NextConc]_vars

(***************************************************************************)
(* Customer.save and generate_account_number (models.py) at registration.  *)
(* Customer.objects.create runs save(): the account number is drawn at     *)
(* random in a loop that ends when no customer holds the number drawn,     *)
(* then the row is inserted; the column is unique, so the INSERT of a      *)
(* number taken in the meantime raises IntegrityError, which nothing       *)
(* catches.  The 10^10 numbers of ten digits are cut down to               *)
(* 1..MaxAccountNumber.  Registrations run concurrently, one per slot of   *)
(* Reqs; requests[r].id holds the number last drawn.                       *)
(***************************************************************************)
MaxAccountNumber == 3
AccountNumbers == 1..MaxAccountNumber
Registrants == {"cust1", "cust2", "cust3"}

account_number_exists(n) ==
    \E c \in DOMAIN customers : customers[c].account_number = n

InitAccount ==
    /\ customers = [c \in {} |-> 0]
    /\ loans = <<>>
    /\ payments = <<>>
    /\ audit = EmptyBag
    /\ clock = 0
    /\ otp_verifications = <<>>
    /\ users = InitUsers
    /\ response = NoResponse
    /\ requests = [r \in Reqs |-> IdleRequest]

\* Customer.objects.create(user = u, ...): save() finds no account number
\* and enters generate_account_number
Customer_objects_create(r, u) ==
    /\ requests[r].pc = "idle"
    /\ u \notin DOMAIN customers
    /\ \A q \in Reqs : requests[q].pc = "idle" \/ requests[q].user # u
    /\ requests' = [requests EXCEPT ![r] =
                       [IdleRequest EXCEPT !.pc = "generate", !.op = "register",
                                           !.user = u]]
    /\ UNCHANGED <<customers, loans, payments, audit, clock, response, otp_verifications, users>>

\* one turn of the loop of generate_account_number: the number n is drawn
\* and returned if no customer holds it
generate_account_number(r, n) ==
    /\ requests[r].pc = "generate"
    /\ requests' = [requests EXCEPT ![r] =
                       [@ EXCEPT !.id = n,
                                 !.pc = IF account_number_exists(n)
                                        THEN "generate" ELSE "save"]]
    /\ UNCHANGED <<customers, loans, payments, audit, clock, response, otp_verifications, users>>

\* super().save(): the INSERT, refused by the unique column when the number
\* has been taken since it was drawn
Customer_insert(r) ==
    LET req == requests[r]
    IN  /\ req.pc = "save"
        /\ IF account_number_exists(req.id)
           THEN /\ Finish(r, 500)
                /\ response' = Respond("register", 500, "IntegrityError")
                /\ UNCHANGED customers
           ELSE /\ Finish(r, 201)
                /\ response' = Respond("register", 201, "")
                /\ customers' =
                      [c \in DOMAIN customers \cup {req.user} |->
                          IF c = req.user
                          THEN [account_number |-> req.id, tier |-> 1,
                                credit_score |-> 300,
                                current_borrow_limit |-> get_base_limit_for_tier(1)]
                          ELSE customers[c]]
        /\ UNCHANGED <<loans, payments, audit, clock, otp_verifications, users>>

\* the response is sent and the slot serves the next request
end_request(r) ==
    /\ requests[r].pc = "done"
    /\ requests' = [requests EXCEPT ![r] = IdleRequest]
    /\ UNCHANGED <<customers, loans, payments, audit, clock, response, otp_verifications, users>>

NextAccount ==
    \/ \E r \in Reqs, u \in Registrants : Customer_objects_create(r, u)
    \/ \E r \in Reqs, n \in AccountNumbers : generate_account_number(r, n)
    \/ \E r \in Reqs : Customer_insert(r)
    \/ \E r \in Reqs : end_request(r)

\* a request that has a statement to run runs it in the end
SpecAccount ==
    /\ InitAccount
    /\ [][NextAccount]_vars
    /\ \A r \in Reqs :
          /\ WF_vars(\E n \in AccountNumbers : generate_account_number(r, n))
          /\ WF_vars(Customer_insert(r))

(***************************************************************************)
(* OTP generation and verification (views.py, OTPViewSet; serializers.py,  *)
(* OTPSerializer and OTPVerifySerializer).  otp_verifications is the table *)
(* of OTPVerification rows by phone number.  Times are minutes of the      *)
(* naive local clock, datetime.now().                                      *)
(***************************************************************************)
OtpLifetimeMinutes == 10
OtpCodes == {"123456", "654321"}
NonDigitCodes == {"12345a"}
SubmittedCodes == OtpCodes \cup NonDigitCodes

datetime_now(hour) == (clock * 24 + hour + UtcOffsetHours) * 60

\* OTPSerializer.create: get_or_create with the new code as defaults, and
\* the same values written over the row that was there
OTPSerializer_create(table, phone_number, otp_code, hour) ==
    [ph \in DOMAIN table \cup {phone_number} |->
        IF ph = phone_number
        THEN [otp_code |-> otp_code,
              expires_at |-> datetime_now(hour) + OtpLifetimeMinutes,
              is_verified |-> FALSE]
        ELSE table[ph]]

\* OTPViewSet.generate: serializer.save() returns the dict that create
\* returns, and reading otp.otp_code from a dict raises AttributeError once
\* the row is stored
OTPViewSet_generate(phone_number, otp_code, hour) ==
    /\ otp_verifications' =
          OTPSerializer_create(otp_verifications, phone_number, otp_code, hour)
    /\ response' = Respond("generate", 500, "AttributeError")
    /\ UNCHANGED <<customers, loans, payments, audit, clock, requests, users>>

validate_otp_code(value) == value \notin NonDigitCodes

\* the checks of the first validate of OTPVerifySerializer, which the
\* second definition of validate replaces
OTPVerifySerializer_validate_Checked(row, otp_code, hour) ==
    IF row.is_verified THEN "already_verified"
    ELSE IF row.expires_at < datetime_now(hour) THEN "expired"
    ELSE IF row.otp_code # otp_code THEN "invalid_code"
    ELSE "ok"

\* OTPVerifySerializer.validate as the class ends up with it: the second
\* definition, which checks nothing
OTPVerifySerializer_validate(row, otp_code, hour) == "ok"

\* OTPViewSet.verify: is_valid() runs the field validators and validate,
\* which marks the row and the user; a phone number without a row raises
\* DoesNotExist; validated_data has no 'otp_instance', so the view raises
\* KeyError after the rows are saved
OTPViewSet_verify(phone_number, otp_code, hour) ==
    IF ~validate_otp_code(otp_code)
    THEN /\ response' = Respond("verify", 400, "otp_code")
         /\ UNCHANGED <<customers, loans, payments, audit, clock, requests,
                        otp_verifications, users>>
    ELSE IF phone_number \notin DOMAIN otp_verifications
    THEN /\ response' = Respond("verify", 500, "DoesNotExist")
         /\ UNCHANGED <<customers, loans, payments, audit, clock, requests,
                        otp_verifications, users>>
    ELSE LET verdict == OTPVerifySerializer_validate(
                            otp_verifications[phone_number], otp_code, hour)
         IN  IF verdict # "ok"
             THEN /\ response' = Respond("verify", 400, verdict)
                  /\ UNCHANGED <<customers, loans, payments, audit, clock,
                                 requests, otp_verifications, users>>
             ELSE /\ otp_verifications' =
                        [otp_verifications EXCEPT
                            ![phone_number] = [@ EXCEPT !.is_verified = TRUE]]
                  /\ users' =
                        IF phone_number \in DOMAIN users
                        THEN [users EXCEPT ![phone_number] =
                                 [@ EXCEPT !.is_phone_verified = TRUE]]
                        ELSE users
                  /\ response' = Respond("verify", 500, "KeyError")
                  /\ UNCHANGED <<customers, loans, payments, audit, clock,
                                 requests>>

NextOtp ==
    \/ Tick
    \/ \E phone_number \in Phones, otp_code \in OtpCodes, hour \in Noon :
            OTPViewSet_generate(phone_number, otp_code, hour)
    \/ \E phone_number \in Phones, otp_code \in SubmittedCodes, hour \in Noon :
            OTPViewSet_verify(phone_number, otp_code, hour)

SpecOtp == Init /\ [][NextOtp]_vars

(***************************************************************************)
(* Loan lifecycle (views.py, LoanViewSet and PaymentViewSet.mark_paid).    *)
(***************************************************************************)
AllowedTransitions ==
    { <<"pending", "approved">>, <<"pending", "rejected">>,
      <<"approved", "disbursed">>, <<"disbursed", "active">>,
      <<"disbursed", "completed">>, <<"disbursed", "defaulted">> }

TerminalStatuses == {"rejected", "completed", "defaulted"}

AddressVerified(l) == customers[loans[l].customer].is_address_verified

\* C1: over any sequence of apply, request_another_loan, approve, reject,
\* disburse and mark_paid operations, a loan is created in status pending,
\* no loan disappears, and every change of a loan's status is one of
\* pending->approved, pending->rejected, approved->disbursed,
\* disbursed->active, disbursed->completed, disbursed->defaulted.
C1_StatusTransitions ==
    [][ /\ Len(loans') >= Len(loans)
        /\ \A l \in 1..Len(loans') :
              IF l > Len(loans)
              THEN loans'[l].status = "pending"
              ELSE \/ loans'[l].status = loans[l].status
                   \/ <<loans[l].status, loans'[l].status>> \in AllowedTransitions
      ]_vars

\* C1 witness: one loan has gone pending -> approved -> disbursed ->
\* completed while another went pending -> rejected.
C1_Witness ==
    \E l, k \in LoanIds :
        /\ loans[l].status = "completed"
        /\ \A p \in PaymentsOf(l) : payments[p].status = "completed"
        /\ loans[k].status = "rejected"

C5_ApproveSucceedsIff ==
    [][ \A l \in LoanIds, u \in Admins, hour \in Noon :
            approve(l, u, hour) =>
                /\ (response'.code = 200)
                      <=> (loans[l].status = "pending" /\ AddressVerified(l))
                /\ response'.code = 200 =>
                      /\ loans'[l].status = "approved"
                      /\ loans'[l].approved_by = u ]_vars

\* C5 witness: admin2 has just approved a pending loan of a customer whose
\* address is verified.
C5_Witness ==
    /\ response = Respond("approve", 200, "")
    /\ \E l \in LoanIds :
          /\ loans[l].status = "approved"
          /\ loans[l].approved_by = "admin2"
          /\ AddressVerified(l)

\* C6: approve on a loan that is not pending, or whose customer's address is
\* not verified, returns an error and leaves the loan's status, its
\* approved_by and the audit log unchanged.
C6_ApproveRefused ==
    [][ \A l \in LoanIds, u \in Admins, hour \in Noon :
            (approve(l, u, hour)
                /\ (loans[l].status # "pending" \/ ~AddressVerified(l))) =>
                /\ response'.code = 400
                /\ loans'[l].status = loans[l].status
                /\ loans'[l].approved_by = loans[l].approved_by
                /\ audit' = audit ]_vars

\* C6 witness: approve has just been refused on a pending loan whose
\* customer's address is not verified.
C6_Witness ==
    /\ response = Respond("approve", 400, "address_not_verified")
    /\ \E l \in LoanIds :
          /\ loans[l].status = "pending"
          /\ loans[l].approved_by = NoUser
          /\ ~AddressVerified(l)

\* C7: reject on a pending loan sets its status to rejected and records the
\* acting user as the loan's approver; reject on a loan in any other status
\* returns an error and leaves the loan's status and approver unchanged.
C7_Reject ==
    [][ \A l \in LoanIds, u \in Admins, hour \in Noon :
            reject(l, u, hour) =>
                IF loans[l].status = "pending"
                THEN /\ response'.code = 200
                     /\ loans'[l].status = "rejected"
                     /\ loans'[l].approved_by = u
                ELSE /\ response'.code = 400
                     /\ loans'[l].status = loans[l].status
                     /\ loans'[l].approved_by = loans[l].approved_by ]_vars

\* C7 witness: a reject has just been refused on a loan that an earlier
\* reject by admin2 moved to rejected.
C7_Witness ==
    /\ response = Respond("reject", 400, "not_pending")
    /\ \E l \in LoanIds :
          /\ loans[l].status = "rejected"
          /\ loans[l].approved_by = "admin2"

\* C8: disburse on a loan whose status is not approved returns an error,
\* creates no payment record, and leaves the loan's status, disbursed_at and
\* due_date unchanged.
C8_DisburseRefused ==
    [][ \A l \in LoanIds, u \in Cashiers, hour \in Hours :
            (disburse(l, u, hour) /\ loans[l].status # "approved") =>
                /\ response'.code = 400
                /\ payments' = payments
                /\ loans'[l].status = loans[l].status
                /\ loans'[l].disbursed_at = loans[l].disbursed_at
                /\ loans'[l].due_date = loans[l].due_date ]_vars

\* C8 witness: disburse has just been refused on a pending loan, which has
\* no payment record, no disbursement time and no due date.
C8_Witness ==
    /\ response = Respond("disburse", 400, "not_approved")
    /\ \E l \in LoanIds :
          /\ loans[l].status = "pending"
          /\ PaymentsOf(l) = {}
          /\ loans[l].disbursed_at = NoInstant
          /\ loans[l].due_date = NoDate


(***************************************************************************)
(* Concurrent requests on one loan (SpecConc).                             *)
(***************************************************************************)
BothDone(r1, r2, op1, op2) ==
    /\ r1 # r2
    /\ requests[r1].op = op1 /\ requests[r2].op = op2
    /\ requests[r1].id = requests[r2].id
    /\ requests[r1].pc = "done" /\ requests[r2].pc = "done"

\* C2: when two disburse requests for the same approved loan run
\* concurrently, the loan ends with exactly duration_months payment records:
\* at most one request generates a schedule, the other fails the status
\* check.
C2_ConcurrentDisburseOnce ==
    \A r1, r2 \in Reqs :
        (BothDone(r1, r2, "disburse", "disburse")
            /\ (requests[r1].seen = "approved" \/ requests[r2].seen = "approved")) =>
            LET l == requests[r1].id
            IN  /\ Cardinality(PaymentsOf(l)) = loans[l].duration_months
                /\ \E r \in {r1, r2} : requests[r].code = 400

\* C3: when an approve and a reject request for the same pending loan run
\* concurrently, exactly one of them succeeds and the loan's final status is
\* the one written by the request that reported success.
C3_ConcurrentApproveReject ==
    \A r1, r2 \in Reqs :
        (BothDone(r1, r2, "approve", "reject")
            /\ (requests[r1].seen = "pending" \/ requests[r2].seen = "pending")) =>
            LET l == requests[r1].id
            IN  /\ (requests[r1].code = 200) # (requests[r2].code = 200)
                /\ requests[r1].code = 200 => loans[l].status = "approved"
                /\ requests[r2].code = 200 => loans[l].status = "rejected"

(***************************************************************************)
(* Disbursement and the payment schedule.                                  *)
(***************************************************************************)
\* C9: a successful disburse of a loan with duration n creates exactly n
\* payment records for that loan, all pending and all with the loan's monthly
\* payment as amount, the i-th due 30 * i days after the date of
\* disbursed_at.
C9_ScheduleGenerated ==
    [][ \A l \in LoanIds, u \in Cashiers, hour \in Hours :
            (disburse(l, u, hour) /\ loans[l].status = "approved") =>
                LET n == loans[l].duration_months
                IN  /\ Len(payments') = Len(payments) + n
                    /\ \A p \in 1..Len(payments) : payments'[p] = payments[p]
                    /\ \A i \in 1..n :
                          LET payment == payments'[Len(payments) + i]
                          IN  /\ payment.loan = l
                              /\ payment.status = "pending"
                              /\ 100 * payment.amount
                                    = calculate_monthly_payment(loans'[l])
                              /\ payment.due_date
                                    = UtcDate(loans'[l].disbursed_at) + 30 * i
      ]_vars

\* C10: a successful disburse sets the loan's status to disbursed, its
\* disbursed_at to the current time and its due_date to the date of
\* disbursed_at plus 30 * duration_months days, which is the due date of the
\* last scheduled installment.
C10_DueDateSet ==
    [][ \A l \in LoanIds, u \in Cashiers, hour \in Hours :
            (disburse(l, u, hour) /\ loans[l].status = "approved") =>
                /\ loans'[l].status = "disbursed"
                /\ loans'[l].disbursed_at = timezone_now(hour)
                /\ loans'[l].due_date
                      = UtcDate(loans'[l].disbursed_at)
                            + 30 * loans[l].duration_months
                /\ loans'[l].due_date = payments'[Len(payments')].due_date
      ]_vars


(***************************************************************************)
(* The loan application (SpecApply): LoanViewSet.create by an account      *)
(* officer, or request_another_loan by the customer.                       *)
(***************************************************************************)
Application(cid, amount, rate, duration) ==
    \/ /\ response'.op = "create"
       /\ \E u \in Officers, hour \in Noon :
             create(cid, amount, rate, duration, u, hour)
    \/ /\ response'.op = "request_another_loan"
       /\ \E l \in LoansOf(cid), hour \in Noon :
             request_another_loan(l, amount, rate, duration, hour)

Accepted == Len(loans') = Len(loans) + 1

Rejected == response'.code = 400 /\ loans' = loans

KycReasons ==
    {"kyc_required_bvn_nin", "kyc_incomplete", "kyc_pending_review",
     "kyc_required"}

C12_AssignedStaffRequired ==
    [][ \A cid \in Customers, t \in ApplyTerms, rate \in ApplyRates :
            Application(cid, t[1], rate, t[2]) =>
                /\ Accepted => can_apply_for_loan(customers[cid])
                /\ customers[cid].assigned_staff = NoUser => Rejected ]_vars

\* C13: every loan created by an application has an amount no greater than
\* the customer's current_borrow_limit as stored when the application was
\* validated; an application for more than that limit is rejected.
C13_WithinBorrowLimit ==
    [][ \A cid \in Customers, t \in ApplyTerms, rate \in ApplyRates :
            Application(cid, t[1], rate, t[2]) =>
                /\ Accepted =>
                      /\ loans'[Len(loans')].amount = t[1]
                      /\ t[1] <= customers[cid].current_borrow_limit
                /\ t[1] > customers[cid].current_borrow_limit => Rejected ]_vars

\* C13 witness: a further loan of 180,000.00 has just been refused because
\* the customer's limit has come down from 200,000.00 to 160,000.00.
C13_Witness ==
    /\ response = Respond("request_another_loan", 400, "exceeds_borrow_limit")
    /\ \E cid \in Customers :
          /\ customers[cid].current_borrow_limit = 16000000
          /\ \E l \in LoansOf(cid) : loans[l].amount = 18000000

\* C14: a loan application for a customer who has a loan in status active
\* is rejected.
C14_ActiveLoanBlocks ==
    [][ \A cid \in Customers, t \in ApplyTerms, rate \in ApplyRates :
            (Application(cid, t[1], rate, t[2])
                /\ \E l \in LoansOf(cid) : loans[l].status = "active") =>
                Rejected ]_vars

\* C14 witness: an application has just been refused because the customer
\* has an active loan.
C14_Witness ==
    /\ response = Respond("create", 400, "active_loan")
    /\ \E l \in LoanIds : loans[l].status = "active"

DurationBounds(amount, duration) ==
    /\ amount > 5000000 => duration <= 60
    /\ amount <= 1000000 => duration <= 36

\* C15: every accepted application satisfies the duration bounds (amount >
\* 50000 implies duration_months <= 60, amount <= 10000 implies
\* duration_months <= 36); an application violating either is rejected.
C15_DurationBounds ==
    [][ \A cid \in Customers, t \in ApplyTerms, rate \in ApplyRates :
            Application(cid, t[1], rate, t[2]) =>
                /\ Accepted =>
                      DurationBounds(loans'[Len(loans')].amount,
                                     loans'[Len(loans')].duration_months)
                /\ ~DurationBounds(t[1], t[2]) => Rejected ]_vars

\* C15 witness: an application for exactly 10,000.00 over 48 months has just
\* been refused by the 36-month rule while a loan of 10,000.00 over 6 months
\* exists.
C15_Witness ==
    /\ response = Respond("create", 400, "duration_over_36")
    /\ \E l \in LoanIds :
          loans[l].amount = 1000000 /\ loans[l].duration_months = 6

\* C16: a rejected application (any failed gate of create or
\* request_another_loan) creates no loan and no payment and leaves the
\* customer's credit score and borrow limit and every loan unchanged.
C16_RejectionChangesNothing ==
    [][ \A cid \in Customers, t \in ApplyTerms, rate \in ApplyRates :
            (Application(cid, t[1], rate, t[2]) /\ response'.code = 400) =>
                /\ loans' = loans
                /\ payments' = payments
                /\ customers'[cid].credit_score = customers[cid].credit_score
                /\ customers'[cid].current_borrow_limit
                      = customers[cid].current_borrow_limit ]_vars

\* C16 witness: request_another_loan has just been refused on a disbursed
\* loan none of whose payments is completed.
C16_Witness ==
    /\ response = Respond("request_another_loan", 400, "no_completed_payment")
    /\ \E l \in LoanIds :
          /\ loans[l].status = "disbursed"
          /\ PaymentsOf(l) # {}
          /\ \A p \in PaymentsOf(l) : payments[p].status = "pending"

\* C17: the reason reported when an application is rejected for a customer
\* with no KYC record differs from the reason reported for a customer whose
\* KYC record exists but is incomplete.
C17_NoKycReportedDistinctly ==
    \A cid \in Customers :
        (/\ response.op = "create" /\ response.code = 400
         /\ response.detail \in KycReasons
         /\ ~customers[cid].kyc.exists) =>
            \A k \in KycProfiles, t \in ApplyTerms :
                (k.exists /\ ~is_fully_verified(k)) =>
                    response.detail
                        # validate_customer([customers[cid] EXCEPT !.kyc = k],
                                            cid, t[1], t[2])

\* C18: request_another_loan creates a new loan only if the loan it is
\* invoked on has at least one completed payment and the customer has no
\* pending loan; otherwise it returns an error and creates nothing.
C18_RequestAnotherLoanGates ==
    [][ \A l \in LoanIds, t \in ApplyTerms, rate \in ApplyRates, hour \in Noon :
            (response'.op = "request_another_loan"
                /\ request_another_loan(l, t[1], rate, t[2], hour)) =>
                LET eligible ==
                        /\ \E p \in PaymentsOf(l) : payments[p].status = "completed"
                        /\ \A k \in LoansOf(loans[l].customer) :
                              loans[k].status # "pending"
                IN  /\ Accepted => eligible
                    /\ ~eligible => Rejected ]_vars

\* C18 witness: request_another_loan has just been refused on a loan with a
\* completed payment because the customer has a pending loan.
C18_Witness ==
    /\ response = Respond("request_another_loan", 400, "pending_loan_exists")
    /\ \E l, k \in LoanIds :
          /\ \E p \in PaymentsOf(l) : payments[p].status = "completed"
          /\ loans[k].status = "pending"


(***************************************************************************)
(* Recording a payment (PaymentViewSet.mark_paid).                         *)
(***************************************************************************)
\* C19: mark_paid on a payment that is not completed sets its status to
\* completed and its paid_date to the current (UTC) date; mark_paid on a
\* completed payment returns an error and leaves the payment's paid_date,
\* the loan's status and the customer's credit score and borrow limit
\* unchanged.
C19_MarkPaid ==
    [][ \A p \in PaymentIds, u \in Cashiers, hour \in Noon :
            mark_paid(p, u, hour) =>
                LET l   == payments[p].loan
                    cid == loans[l].customer
                IN  IF payments[p].status # "completed"
                    THEN /\ response'.code = 200
                         /\ payments'[p].status = "completed"
                         /\ payments'[p].paid_date = clock
                    ELSE /\ response'.code = 400
                         /\ payments'[p] = payments[p]
                         /\ loans'[l].status = loans[l].status
                         /\ customers'[cid].credit_score
                               = customers[cid].credit_score
                         /\ customers'[cid].current_borrow_limit
                               = customers[cid].current_borrow_limit ]_vars

\* C19 witness: on day 31 a second mark_paid has been refused on a payment
\* recorded on day 0, whose paid_date is still day 0.
C19_Witness ==
    /\ response = Respond("mark_paid", 400, "already_completed")
    /\ clock = 31
    /\ \E p \in PaymentIds :
          payments[p].status = "completed" /\ payments[p].paid_date = 0

BaseLimit(tier) ==
    CASE tier = 1 -> 20000000 [] tier = 2 -> 50000000
      [] tier = 3 -> 200000000 [] tier = 4 -> 500000000
      [] OTHER -> 0

\* in tenths (every base limit is a multiple of ten cents)
Multiplier(score) ==
    IF score >= 750 THEN 15 ELSE IF score >= 650 THEN 13
    ELSE IF score >= 550 THEN 11 ELSE 8

\* C20: immediately after a successful mark_paid the customer's stored
\* credit_score is the score computed from the customer's loans and payments
\* including the payment just recorded, and the stored current_borrow_limit
\* is base(tier) times multiplier(that score).
C20_ScoreAndLimitRecomputed ==
    [][ \A p \in PaymentIds, u \in Cashiers, hour \in Noon :
            (mark_paid(p, u, hour) /\ response'.code = 200) =>
                LET cid == loans[payments[p].loan].customer
                    c   == customers'[cid]
                IN  /\ c.credit_score = calculate_credit_score(cid, payments')
                    /\ c.current_borrow_limit
                          = (BaseLimit(c.tier) \div 10)
                                * Multiplier(c.credit_score) ]_vars

\* C20 witness: a tier 4 customer has paid every installment on time, which
\* lifts the score to 560 and the limit to 1.1 times the tier's base.
C20_Witness ==
    /\ response = Respond("mark_paid", 200, "")
    /\ \E cid \in Customers :
          /\ customers[cid].tier = 4
          /\ customers[cid].credit_score = 560
          /\ customers[cid].current_borrow_limit = 550000000
          /\ \A p \in PaymentIds : payments[p].status = "completed"
          /\ PaymentIds # {}

(***************************************************************************)
(* Completion of a loan (views.py, PaymentViewSet.mark_paid; models.py,    *)
(* Loan.get_total_amount and get_outstanding_balance).                     *)
(***************************************************************************)
\* the loan of the payment that the step has changed
PaidLoan == payments[CHOOSE p \in PaymentIds : payments'[p] # payments[p]].loan

\* total repayable minus the completed payment amounts after the step, in
\* hundredths of a cent
OutstandingAfter(l) ==
    calculate_monthly_payment(loans[l]) * loans[l].duration_months
        - 100 * SumAmounts(payments',
                           {q \in PaymentIds : /\ payments'[q].loan = l
                                               /\ payments'[q].status = "completed"})

\* C21: after a mark_paid that records a payment, the loan is completed if
\* its outstanding balance (total repayable minus the sum of its completed
\* payment amounts) is <= 0, and keeps its status if the balance is > 0
C21_CompletedWhenPaidOff ==
    [][(response'.op = "mark_paid" /\ payments' # payments) =>
          IF OutstandingAfter(PaidLoan) <= 0
          THEN loans'[PaidLoan].status = "completed"
          ELSE loans'[PaidLoan].status = loans[PaidLoan].status]_vars

\* the last installment has just been recorded and the loan is completed
C21_Witness ==
    /\ response.op = "mark_paid"
    /\ response.code = 200
    /\ \E l \in LoanIds :
          /\ loans[l].status = "completed"
          /\ PaymentsOf(l) # {}
          /\ \A p \in PaymentsOf(l) : payments[p].status = "completed"

(***************************************************************************)
(* Credit score and borrow limit (models.py, Customer).                    *)
(***************************************************************************)
\* C22: every customer's stored credit_score lies in [300, 850];
\* calculate_credit_score returns a value in [300, 850] for every loan and
\* payment history, and exactly 300 for a customer with no loans, whatever
\* the tier
C22_ScoreRange ==
    \A cid \in Customers :
        /\ customers[cid].credit_score \in 300..850
        /\ calculate_credit_score(cid, payments) \in 300..850
        /\ LoansOf(cid) = {} => calculate_credit_score(cid, payments) = 300

\* the score has been recomputed for a customer whose penalty outweighs the
\* other factors; the stored score is the lower limit
C22_Witness ==
    /\ response.op = "update_credit_score"
    /\ \E cid \in Customers :
          /\ LoansOf(cid) # {}
          /\ Cardinality({p \in PaymentIds : ~is_on_time(payments[p])}) >= 10
          /\ customers[cid].credit_score = 300

\* C23: for a customer with at least one loan, calculate_credit_score is
\* clamp(300 + floor(150 * on_time / (on_time + late)) [0 without payments]
\*       + min(10 * loan_count, 50) + 25 * tier - min(20 * late, 200),
\*       300, 850),
\* on_time counting the payments with paid_date <= due_date and late every
\* other payment of the customer's loans, the unpaid ones included
C23_ScoreFormula ==
    \A cid \in Customers :
        LET mine    == {p \in PaymentIds : payments[p].loan \in LoansOf(cid)}
            on_time == Cardinality({p \in mine :
                          /\ payments[p].paid_date # NoDate
                          /\ payments[p].paid_date <= payments[p].due_date})
            late    == Cardinality(mine) - on_time
            factor  == IF on_time + late = 0 THEN 0
                       ELSE (150 * on_time) \div (on_time + late)
            raw     == 300 + factor + Min(10 * Cardinality(LoansOf(cid)), 50)
                           + 25 * customers[cid].tier - Min(20 * late, 200)
        IN  LoansOf(cid) # {} =>
                calculate_credit_score(cid, payments) = Min(Max(raw, 300), 850)

C25_LimitFollowsScore ==
    \A cid \in Customers :
        customers[cid].current_borrow_limit
            = (BaseLimit(customers[cid].tier) \div 10)
                  * Multiplier(customers[cid].credit_score)

\* update_credit_score followed by update_borrow_limit, on a customer row
Recomputed(c, cid) == update_borrow_limit(update_credit_score(c, cid, payments))

\* C26: calculate_credit_score changes no stored state, and with the loans
\* and payments unchanged a second update_credit_score + update_borrow_limit
\* leaves the stored score and limit exactly as the first did
C26_RecomputationIdempotent ==
    /\ [](\A cid \in Customers :
             Recomputed(Recomputed(customers[cid], cid), cid)
                 = Recomputed(customers[cid], cid))
    /\ [][response'.op = "calculate_credit_score" =>
             UNCHANGED <<customers, loans, payments, audit>>]_vars

\* the score and the limit of a customer with loans have been recomputed
\* from their creation values
C26_Witness ==
    /\ response.op = "update_borrow_limit"
    /\ \E cid \in Customers :
          /\ LoansOf(cid) # {}
          /\ customers[cid].credit_score # 300
          /\ customers[cid].credit_score = calculate_credit_score(cid, payments)
          /\ customers[cid] = Recomputed(customers[cid], cid)

(***************************************************************************)
(* Audit log (models.py, AuditLog; views.py, the AuditLog.objects.create   *)
(* calls of the loan operations).                                          *)
(***************************************************************************)
\* C27: the audit log is append-only: every step keeps every row it finds,
\* unchanged and as many times as it is there
C27_AuditAppendOnly ==
    [][\A e \in BagToSet(audit) : CopiesIn(e, audit') >= CopiesIn(e, audit)]_vars

\* the rows of an address verification, an application and an approval are
\* all in the log
C27_Witness ==
    /\ response.op = "approve"
    /\ response.code = 200
    /\ \A a \in {"verify", "create", "approve"} : AuditCount(audit, a) >= 1

\* C28: when the audit write of an application, approval, rejection or
\* disbursement fails, the operation still completes its state change and
\* reports success: a step of these operations that changes a loan answers
\* 200 or 201
C28_AuditFailureNotSurfaced ==
    [][(response'.op \in {"create", "approve", "reject", "disburse"}
            /\ loans' # loans)
          => response'.code \in {200, 201}]_vars

(***************************************************************************)
(* Payment.is_on_time and Payment.days_overdue (models.py).                *)
(***************************************************************************)
\* the current date, as mark_paid records it in paid_date
Today(hour) == UtcDate(timezone_now(hour))

C30_ZeroRateAndZeroDuration ==
    \A l \in LoanIds :
        LET loan == loans[l]
            P    == DecimalOfCents(loan.amount)
            n    == loan.duration_months
            pay  == zero_rate_monthly_payment(loan)
        IN  /\ n = 0 => DecimalEq(pay, P)
            /\ (loan.interest_rate = 0 /\ n > 0) =>
                  /\ DecimalEq([coef |-> BigMul(pay.coef, BigFromInt(n)),
                                exp  |-> pay.exp], P)
                  /\ DecimalEq(zero_rate_total_amount(loan), P)

(***************************************************************************)
(* Permission to record a payment (views.py, PaymentViewSet).              *)
(***************************************************************************)
\* C31: only an admin can record a payment: a mark_paid request of an
\* authenticated user who is not an admin is denied and changes no payment,
\* loan or customer
C31_OnlyAdminRecordsPayment ==
    [][\A p \in PaymentIds, u \in Users \ Admins, hour \in Noon :
          PaymentViewSet_mark_paid(p, u, hour) =>
              /\ response'.code = 403
              /\ UNCHANGED <<payments, loans, customers>>]_vars

(***************************************************************************)
(* Account numbers (models.py, Customer.save / generate_account_number).   *)
(***************************************************************************)
\* C32: the generation of an account number terminates (a request that has
\* entered generate_account_number leaves it), and no two customers ever
\* hold the same account number
C32_AccountNumberGeneration ==
    /\ [](\A a, b \in DOMAIN customers :
            a # b => customers[a].account_number # customers[b].account_number)
    /\ \A r \in Reqs :
          (requests[r].pc = "generate") ~> (requests[r].pc # "generate")

(***************************************************************************)
(* OTP verification (views.py, OTPViewSet.verify; serializers.py,          *)
(* OTPVerifySerializer).                                                   *)
(***************************************************************************)
\* C33: once an OTP is stored for a phone number, a verification request
\* marks the phone number and its user as verified only if the submitted
\* code is the stored code, the OTP has not expired and it was not verified
\* already: a request with a wrong code or an expired OTP leaves is_verified
\* and is_phone_verified as they were
C33_OtpVerifiedOnlyWhenValid ==
    [][\A phone_number \in DOMAIN otp_verifications,
          otp_code \in SubmittedCodes, hour \in Noon :
          LET row == otp_verifications[phone_number]
              accepted == /\ row.otp_code = otp_code
                          /\ ~(row.expires_at < datetime_now(hour))
                          /\ ~row.is_verified
          IN  (OTPViewSet_verify(phone_number, otp_code, hour) /\ ~accepted) =>
                  /\ otp_verifications'[phone_number].is_verified
                        = row.is_verified
                  /\ users' = users]_vars

(***************************************************************************)
(* Completion of a loan whose installments are all recorded (views.py,     *)
(* PaymentViewSet.mark_paid; models.py, Loan.get_outstanding_balance).     *)
(***************************************************************************)
\* C34: a disbursed loan whose duration_months scheduled payments have all
\* been recorded with mark_paid is completed, also when the stored payment
\* amount is the monthly payment rounded to cents
C34_CompletedWhenAllRecorded ==
    \A l \in LoanIds :
        (/\ loans[l].status \in {"disbursed", "completed"}
         /\ Cardinality(PaymentsOf(l)) = loans[l].duration_months
         /\ \A p \in PaymentsOf(l) : payments[p].status = "completed")
            => loans[l].status = "completed"

(***************************************************************************)
(* Payment records and the status of their loan.                           *)
(***************************************************************************)
\* C35: under sequential apply, approve, reject, disburse and mark_paid, a
\* loan that is pending, approved or rejected has no payment records and a
\* loan that is disbursed or completed has exactly duration_months of them
C35_PaymentsMatchStatus ==
    \A l \in LoanIds :
        /\ loans[l].status \in {"pending", "approved", "rejected"} =>
              PaymentsOf(l) = {}
        /\ loans[l].status \in {"disbursed", "completed"} =>
              Cardinality(PaymentsOf(l)) = loans[l].duration_months

\* a disbursed loan with its full schedule, part of it recorded
C35_Witness ==
    \E l \in LoanIds :
        /\ loans[l].status = "disbursed"
        /\ Cardinality(PaymentsOf(l)) = loans[l].duration_months
        /\ \E p, q \in PaymentsOf(l) : /\ payments[p].status = "completed"
                                       /\ payments[q].status = "pending"

C37_OneLoanUnderRepayment ==
    \A cid \in Customers :
        Cardinality({l \in LoansOf(cid) :
                        loans[l].status \in {"disbursed", "active"}}) <= 1

(***************************************************************************)
(* The borrow limit a further loan is validated against (views.py,         *)
(* LoanViewSet.request_another_loan).                                      *)
(***************************************************************************)
\* C38: after a successful request_another_loan the amount of the new loan
\* does not exceed the customer's current_borrow_limit as stored at the end
\* of the request, the limit recomputed from the refreshed score
C38_WithinRecomputedLimit ==
    [][(response'.op = "request_another_loan" /\ response'.code = 200) =>
          LET new == loans'[Len(loans')]
          IN  new.amount <= customers'[new.customer].current_borrow_limit]_vars

(***************************************************************************)
(* The effect of a payment made in time on the stored score and limit      *)
(* (views.py, PaymentViewSet.mark_paid).                                   *)
(***************************************************************************)
\* C39: a mark_paid that records a payment on or before its due date never
\* lowers the stored credit_score or current_borrow_limit of the customer
\* who owns the payment, whatever loans were applied for or disbursed since
\* the previous recomputation
C39_OnTimePaymentNeverLowers ==
    [][\A p \in PaymentIds :
          (/\ response'.op = "mark_paid"
           /\ payments'[p] # payments[p]
           /\ is_on_time(payments'[p])) =>
              LET cid == loans[payments[p].loan].customer
              IN  /\ customers'[cid].credit_score >= customers[cid].credit_score
                  /\ customers'[cid].current_borrow_limit
                        >= customers[cid].current_borrow_limit]_vars

=============================================================================
